---- MODULE Spec2Model ----
(***************************************************************************)
(* Verification model of the Farcaster agent repository.                   *)
(*                                                                         *)
(*  Spec          fetchAllUserCasts, the bounded paginated cast collector  *)
(*                of the optimal-posting-time agent (src/unnamed/part_000) *)
(*  SpecFollowers the follower collection loop and the de-duplication of   *)
(*                getTrueAudienceProfile (src/follower-analyst/index.ts)   *)
(*  SpecTime      farcasterEpochToDate and the hour / weekday bucket keys  *)
(*                of analyzeOptimalPostingTimesUTC (src/unnamed/part_000)  *)
(*                                                                         *)
(* The variables of a machine that a specification does not run keep their *)
(* idle initial values.                                                    *)
(***************************************************************************)
EXTENDS Integers, Sequences, FiniteSets, TLC

VARIABLES
  \* ---- analyzeOptimalPostingTime.run and its fetchAllUserCasts ----
  fid,            \* args.fid (part_000:564)
  report,         \* the report run returns, before JSON.stringify
  pc,             \* "fetch": about to issue a page request; "done": returned
  allCasts,       \* the accumulator (part_000:435)
  nextPageToken,  \* part_000:436
  error,          \* part_000:437
  requests,       \* history: number of axios.get calls issued (part_000:450)
  fetched,        \* history: every message of every page received, in order
  rawCount,       \* history: allCasts.length as tested on line 461
  respToken,      \* history: response.data.nextPageToken of the last page
  shortPage,      \* history: some page carried a token but fewer than
                  \*          CAST_FETCH_PAGE_SIZE qualifying messages
  \* ---- getTrueAudienceProfile.run ----
  fpc,                    \* "collect": awaiting a follower page; "deduped":
                          \* line 217 ran, awaiting the first bulk chunk;
                          \* "hydrate": awaiting a later chunk; "returned"
  targetFid,              \* args.fid (index.ts:177)
  followerReport,         \* the report run returns, before JSON.stringify
  chunkStart,             \* i of the loop of index.ts:233
  followerProfilesToAnalyze,  \* index.ts:230
  bulkFetchError,         \* index.ts:231
  allFollowerFids,        \* index.ts:180
  fetchedFollowersCount,  \* index.ts:181
  cursor,                 \* index.ts:182
  fetchError,             \* index.ts:183
  collected,              \* history: allFollowerFids as it was before line 217
  followerRequests,       \* history: number of fetchUserFollowers calls
  usersServed,            \* history: number of follow entries received
  requestedLimit,         \* history: limit of the fetchUserFollowers call
                          \* in flight (index.ts:186, 189)
  oversized,              \* history: a page held more entries than its limit
  bulkRequests,           \* history: the chunks passed to fetchBulkUsers
  bulkAnswers,            \* history: the users lists the chunks came back with
  \* ---- farcasterEpochToDate / bucket keys ----
  tpc,        \* "convert", "bucketed"
  fcTimestamp,\* cast.data.timestamp, seconds since the Farcaster epoch
  hourKey,    \* part_000:500
  dayKey,     \* part_000:501
  \* ---- analyzeOptimalPostingTimesUTC ----
  apc,             \* "analyze": called with casts; "analysed": returned
  casts,           \* the argument: [type, timestamp] records
  hourlyActivity,  \* part_000:488, an object: its properties in creation order
  dailyActivity,   \* part_000:489
  peakHoursUTC,    \* part_000:508
  maxCastsInHour,  \* part_000:509
  peakDaysUTC,     \* part_000:519
  maxCastsInDay,   \* part_000:520
  analysisResult,  \* the value returned (part_000:481-485, 546-554)
  \* ---- analyzeFarcasterPulseWithXContext.run ----
  ppc,            \* the await at which run stands, or "returned"
  viewerFid,      \* args.viewerFid (part_000:111)
  catalystCast,   \* part_000:135
  directReplies,  \* the second argument of line 154
  pulseReport,    \* part_000:112-118
  calls,          \* history: the stage functions and requests started, in order
  failed,         \* history: the calls that did not give a usable result
  \* ---- the start of an agent process ----
  spc,            \* "load", "construct", "register", "start", "started", "exited"
  agentName,      \* which agent's module is being loaded
  env,            \* process.env: NEYNAR_API_KEY and XAI_API_KEY
  exitStatus,     \* the status given to process.exit, or Undefined
  capabilities,   \* the names given to agent.addCapability so far
  serverStarted,  \* agent.start() was called
  \* ---- analyzeUserPersona.run (digital persona/index.ts) ----
  perpc,                  \* "fetch": Promise.all is awaited; "synthesis":
                          \* synthesizePersona is awaited; "returned"
  xHandle, farcasterFid,  \* args (index.ts:182)
  farcasterUsername,      \* index.ts:183
  pendingFetches,         \* the promises of lines 187-189 not yet settled
  xDataResult, fcProfileResult, fcCastsResult,
  personaReport,          \* finalReport, before JSON.stringify
  personaCalls,           \* the helper calls made, in order
  settledFetches,         \* the promises of lines 187-189 in settling order
  \* ---- searchXPlatform / searchRssFeed / searchWeb (part_001:19-111) ----
  srpc,                   \* "request": the xAI answer is awaited; "returned"
  searchType, query, rssUrl,  \* the arguments of commonXaiRequest
  searchSources,          \* requestBody.search_parameters.sources
  searchResult,           \* the string the capability returns
  \* ---- suggestFarcasterCasts.run (part_001:234-323) ----
  crpc,                   \* the call awaited: "user", "casts", "xActivity",
                          \* "interests", "xEvents", "suggestions"; "returned"
  crafterArgs,            \* args: farcasterFid, xHandle
  fcData,                 \* part_001:247
  crafterReport,          \* report, before JSON.stringify
  crafterCalls,           \* the external requests made, in order
  crafterFailed,          \* the requests whose helper gave back an error
  \* ---- getFarcasterStrategicDigest.run (part_001:535-629) ----
  dgpc,                   \* the call awaited: "userStats", "topCasts",
                          \* "followers", "bulkUsers", "interestCasts",
                          \* "interests", "xEvents", "synthesis"; "returned"
  digestFid,              \* args.fid
  digestReport,           \* report (part_001:539)
  recentFollowerFids,     \* part_001:566
  finalOutput,            \* what run returns, before JSON.stringify
  digestCalls,            \* the external requests made, in order
  digestFailed,           \* the requests that were rejected or malformed
  \* analyzeFollowerSegments applied to a list of profiles (index.ts:100-166)
  segpc,                  \* "start", "done"; "idle" outside its specification
  segFollowers,           \* followers: the list of profiles passed in
  segResult               \* what analyzeFollowerSegments returned

castVars == <<fid, report, pc, allCasts, nextPageToken, error, requests,
              fetched, rawCount, respToken, shortPage>>
followerVars == <<fpc, targetFid, followerReport, chunkStart,
                  followerProfilesToAnalyze, bulkFetchError, allFollowerFids,
                  fetchedFollowersCount, cursor, fetchError, collected,
                  followerRequests, usersServed, requestedLimit, oversized,
                  bulkRequests, bulkAnswers>>
timeVars == <<tpc, fcTimestamp, hourKey, dayKey>>
analysisVars == <<apc, casts, hourlyActivity, dailyActivity, peakHoursUTC,
                  maxCastsInHour, peakDaysUTC, maxCastsInDay, analysisResult>>
pulseVars == <<ppc, viewerFid, catalystCast, directReplies, pulseReport, calls,
               failed>>
startupVars == <<spc, agentName, env, exitStatus, capabilities, serverStarted>>
personaVars == <<perpc, xHandle, farcasterFid, farcasterUsername,
                 pendingFetches, xDataResult, fcProfileResult, fcCastsResult,
                 personaReport, personaCalls, settledFetches>>
searchVars == <<srpc, searchType, query, rssUrl, searchSources, searchResult>>
crafterVars == <<crpc, crafterArgs, fcData, crafterReport, crafterCalls,
                 crafterFailed>>
digestVars == <<dgpc, digestFid, digestReport, recentFollowerFids,
                finalOutput, digestCalls, digestFailed>>
segmentsVars == <<segpc, segFollowers, segResult>>
vars == <<castVars, followerVars, timeVars, analysisVars, pulseVars,
          startupVars, personaVars, searchVars, crafterVars, digestVars,
          segmentsVars>>

\* what the actions of one machine leave unchanged
notCastVars == <<followerVars, timeVars, analysisVars, pulseVars,
                 startupVars, personaVars, searchVars, crafterVars,
                 digestVars, segmentsVars>>
notFollowerVars == <<castVars, timeVars, analysisVars, pulseVars,
                     startupVars, personaVars, searchVars, crafterVars,
                     digestVars, segmentsVars>>
notTimeVars == <<castVars, followerVars, analysisVars, pulseVars,
                 startupVars, personaVars, searchVars, crafterVars,
                 digestVars, segmentsVars>>
notAnalysisVars == <<castVars, followerVars, timeVars, pulseVars,
                     startupVars, personaVars, searchVars, crafterVars,
                     digestVars, segmentsVars>>
notPulseVars == <<castVars, followerVars, timeVars, analysisVars,
                  startupVars, personaVars, searchVars, crafterVars,
                  digestVars, segmentsVars>>
notStartupVars == <<castVars, followerVars, timeVars, analysisVars,
                    pulseVars, personaVars, searchVars, crafterVars,
                    digestVars, segmentsVars>>
notPersonaVars == <<castVars, followerVars, timeVars, analysisVars,
                    pulseVars, startupVars, searchVars, crafterVars,
                    digestVars, segmentsVars>>
notSearchVars == <<castVars, followerVars, timeVars, analysisVars, pulseVars,
                   startupVars, personaVars, crafterVars, digestVars,
                   segmentsVars>>
notCrafterVars == <<castVars, followerVars, timeVars, analysisVars,
                    pulseVars, startupVars, personaVars, searchVars,
                    digestVars, segmentsVars>>
notDigestVars == <<castVars, followerVars, timeVars, analysisVars, pulseVars,
                   startupVars, personaVars, searchVars, crafterVars,
                   segmentsVars>>
notSegmentsVars == <<castVars, followerVars, timeVars, analysisVars,
                     pulseVars, startupVars, personaVars, searchVars,
                     crafterVars, digestVars>>

(***************************************************************************)
(* Bounds.  The two limits of the collector are scaled down from the       *)
(* source's 500 and 100 (part_000:397-398); every property below is stated *)
(* in terms of the names, not of the numbers.                              *)
(***************************************************************************)
MAX_CASTS_TO_FETCH_FOR_POST_TIME_ANALYSIS == 3
CAST_FETCH_PAGE_SIZE == 2
\* the most messages the source serves in one run, over all its pages
MaxMessages == 6
\* how many requests beyond ceil(maxItems / pageSize) + 1 a run may issue
ExtraRequests == 1

\* The limits of the follower collector, scaled down from the source's 150
\* and 50 (index.ts:12-13)
MAX_FOLLOWERS_TO_PROCESS == 3
FOLLOWER_FETCH_BATCH_SIZE == 2
\* follower FIDs are 1..MaxFid; 0 is a FID the collector's test rejects
MaxFid == 2
\* the most follow entries the source serves in one run, over all its pages
MaxUsers == 4
\* the most follower page requests of one run
MaxFollowerRequests == 4
\* The size of a bulk-hydration chunk, scaled down from the source's 100
\* (index.ts:14)
BULK_USER_FETCH_CHUNK_SIZE == 1
\* The size of a sample, scaled down from the source's 10 (index.ts:160, 161)
SEGMENT_SAMPLE_SIZE == 2
\* The top share of the follower counts, scaled from the source's tenth,
\* Math.floor(followerCounts.length * 0.1), to a half (index.ts:116)
TOP_PERCENTILE_DIVISOR == 2
\* the longest list of profiles analysed on its own
MaxProfiles == 4
\* index.ts:124
MIN_HIGH_FOLLOWER_COUNT == 100

\* raw timestamps cover the days 0..MaxDay after the Farcaster epoch
MaxDay == 8
\* analyzeOptimalPostingTimesUTC is applied to at most MaxTallyCasts casts
\* posted on the days 0..MaxTallyDay after the Farcaster epoch
MaxTallyCasts == 3
MaxTallyDay == 1
\* the replies feed of the catalyst cast holds at most MaxReplies casts
MaxReplies == 2

\* JavaScript's undefined
Undefined == "undefined"

Min(a, b) == IF a <= b THEN a ELSE b
CeilDiv(a, b) == (a + b - 1) \div b
RequestBound ==
  CeilDiv(MAX_CASTS_TO_FETCH_FOR_POST_TIME_ANALYSIS, CAST_FETCH_PAGE_SIZE) + 1
MaxRequests == RequestBound + ExtraRequests

(***************************************************************************)
(* The state of a machine that is not running.                             *)
(***************************************************************************)
IdleFollowers ==
  /\ targetFid = "" /\ followerReport = [notReturned |-> TRUE]
  /\ chunkStart = 0 /\ followerProfilesToAnalyze = <<>>
  /\ bulkFetchError = Undefined
  /\ fpc = "idle" /\ allFollowerFids = <<>> /\ fetchedFollowersCount = 0
  /\ cursor = Undefined /\ fetchError = Undefined /\ collected = <<>>
  /\ followerRequests = 0 /\ usersServed = 0
  /\ requestedLimit = 0 /\ oversized = FALSE
  /\ bulkRequests = <<>> /\ bulkAnswers = <<>>

IdleTime ==
  /\ tpc = "idle" /\ fcTimestamp = 0 /\ hourKey = "" /\ dayKey = ""

IdleCasts ==
  /\ fid = "" /\ report = [notReturned |-> TRUE]
  /\ pc = "idle" /\ allCasts = <<>> /\ nextPageToken = Undefined
  /\ error = Undefined /\ requests = 0 /\ fetched = <<>> /\ rawCount = 0
  /\ respToken = Undefined /\ shortPage = FALSE

IdleAnalysis ==
  /\ apc = "idle" /\ casts = <<>> /\ hourlyActivity = <<>>
  /\ dailyActivity = <<>> /\ peakHoursUTC = <<>> /\ maxCastsInHour = 0
  /\ peakDaysUTC = <<>> /\ maxCastsInDay = 0
  /\ analysisResult = [notReturned |-> TRUE]

IdlePulse ==
  /\ ppc = "idle" /\ viewerFid = "" /\ catalystCast = [none |-> TRUE]
  /\ directReplies = <<>> /\ pulseReport = [notReturned |-> TRUE]
  /\ calls = <<>> /\ failed = {}

IdleStartup ==
  /\ spc = "idle" /\ agentName = "" /\ env = [none |-> TRUE]
  /\ exitStatus = Undefined /\ capabilities = <<>> /\ serverStarted = FALSE

IdlePersona ==
  /\ perpc = "idle" /\ xHandle = "" /\ farcasterFid = ""
  /\ farcasterUsername = "" /\ pendingFetches = {}
  /\ xDataResult = [pending |-> TRUE]
  /\ fcProfileResult = [pending |-> TRUE]
  /\ fcCastsResult = [pending |-> TRUE]
  /\ personaReport = [notReturned |-> TRUE]
  /\ personaCalls = <<>> /\ settledFetches = <<>>

IdleSearch ==
  /\ srpc = "idle" /\ searchType = "" /\ query = "" /\ rssUrl = Undefined
  /\ searchSources = <<>> /\ searchResult = Undefined

IdleCrafter ==
  /\ crpc = "idle" /\ crafterArgs = [none |-> TRUE]
  /\ fcData = [pending |-> TRUE]
  /\ crafterReport = [notReturned |-> TRUE]
  /\ crafterCalls = <<>> /\ crafterFailed = {}

IdleDigest ==
  /\ dgpc = "idle" /\ digestFid = ""
  /\ digestReport = [notReturned |-> TRUE]
  /\ recentFollowerFids = <<>>
  /\ finalOutput = [notReturned |-> TRUE]
  /\ digestCalls = <<>> /\ digestFailed = {}

IdleSegments ==
  /\ segpc = "idle" /\ segFollowers = <<>>
  /\ segResult = [notReturned |-> TRUE]

(***************************************************************************)
(* farcasterEpochToDate and the bucket keys (part_000:429-432, 494-501)    *)
(*                                                                         *)
(* A Date holds a time value, the milliseconds since 1970-01-01T00:00:00Z. *)
(* The time values of this program exceed the 32-bit integers of the model *)
(* checker, so a time value is held as [day, ms]: whole days since 1970    *)
(* and milliseconds within the day; it stands for day * MsPerDay + ms.     *)
(***************************************************************************)
MsPerHour == 60 * 60 * 1000
MsPerDay == 24 * MsPerHour

\* part_000:430: 1609459200000 = 18628 * 86400000
FARCASTER_EPOCH_MS == [day |-> 18628, ms |-> 0]

\* tv + ms, for ms >= 0
TimePlus(tv, ms) ==
  [day |-> tv.day + ((tv.ms + ms) \div MsPerDay),
   ms |-> (tv.ms + ms) % MsPerDay]

\* the timestamp read as seconds since 1970
UnixSecondsToDate(t) == TimePlus([day |-> 0, ms |-> 0], t * 1000)

\* part_000:429-432: new Date(FARCASTER_EPOCH_MS + fcTimestamp * 1000)
farcasterEpochToDate(t) == TimePlus(FARCASTER_EPOCH_MS, t * 1000)

\* Date.prototype.getUTCHours: HourFromTime(tv) = floor(tv / msPerHour) mod 24
getUTCHours(tv) == (tv.day * 24 + (tv.ms \div MsPerHour)) % 24

\* Date.prototype.getUTCDay: WeekDay(tv) = (Day(tv) + 4) mod 7, 0 = Sunday
getUTCDay(tv) == (tv.day + 4) % 7

\* part_000:500: hour.toString().padStart(2, '0')
HourKey(hour) ==
  IF hour < 10 THEN "0" \o ToString(hour) ELSE ToString(hour)

\* part_000:501: dayOfWeek.toString()
DayKey(dayOfWeek) == ToString(dayOfWeek)

(***************************************************************************)
(* analyzeOptimalPostingTimesUTC (part_000:479-555)                        *)
(*                                                                         *)
(* A JavaScript object is modelled as the sequence of its properties       *)
(* [key, cast_count] in the order in which they were created.              *)
(***************************************************************************)
daysOfWeek ==
  <<"Sunday", "Monday", "Tuesday", "Wednesday", "Thursday", "Friday",
    "Saturday">>

\* obj[key], or Undefined
HasKey(obj, key) == \E i \in 1..Len(obj) : obj[i].key = key
KeyIndex(obj, key) == CHOOSE i \in 1..Len(obj) : obj[i].key = key

\* a tally that forgets the count it had
TallyAddOverwrite(obj, key) ==
  IF HasKey(obj, key)
  THEN [obj EXCEPT ![KeyIndex(obj, key)] = [key |-> key, cast_count |-> 1]]
  ELSE Append(obj, [key |-> key, cast_count |-> 1])

\* part_000:503-504: obj[key] = { cast_count: (obj[key]?.cast_count || 0) + 1 }
\* assigning to an existing property keeps its place in the object
TallyAdd(obj, key) ==
  IF HasKey(obj, key)
  THEN [obj EXCEPT ![KeyIndex(obj, key)] =
          [key |-> key, cast_count |-> obj[KeyIndex(obj, key)].cast_count + 1]]
  ELSE Append(obj, [key |-> key, cast_count |-> 0 + 1])

\* part_000:492-506: the tally loop over casts[1..n]
RECURSIVE TallyLoop(_, _)
TallyLoop(cs, n) ==
  IF n = 0
  THEN [hourly |-> <<>>, daily |-> <<>>]
  ELSE LET before == TallyLoop(cs, n - 1)
           cast == cs[n]
       IN IF cast.type = "MESSAGE_TYPE_CAST_ADD"
          THEN LET utcDate == farcasterEpochToDate(cast.timestamp)
               IN [hourly |-> TallyAdd(before.hourly,
                                       HourKey(getUTCHours(utcDate))),
                   daily |-> TallyAdd(before.daily,
                                      DayKey(getUTCDay(utcDate)))]
          ELSE before

\* the keys that are canonical array indices ("0", "7", "14", not "07"): the
\* buckets only produce the indices 0..23
IsArrayIndex(key) == \E n \in 0..23 : ToString(n) = key

\* parseInt of a decimal string below 24, with or without a leading zero
parseInt(str) == CHOOSE n \in 0..23 : ToString(n) = str \/ HourKey(n) = str

\* the properties with an array-index key, by ascending index up to n
RECURSIVE IndexEntries(_, _)
IndexEntries(obj, n) ==
  IF n < 0 THEN <<>>
  ELSE IndexEntries(obj, n - 1) \o
         (IF HasKey(obj, ToString(n))
          THEN <<obj[KeyIndex(obj, ToString(n))]>> ELSE <<>>)

IsStringEntry(e) == ~IsArrayIndex(e.key)

\* an enumeration in creation order only
ObjectEntriesInsertion(obj) == obj

\* part_000:510,521,532,535: Object.entries enumerates the array-index keys
\* in ascending numeric order first, then the other string keys in the order
\* of their creation (ECMAScript OrdinaryOwnPropertyKeys)
ObjectEntries(obj) == IndexEntries(obj, 23) \o SelectSeq(obj, IsStringEntry)

\* a peak search that keeps only the first of the tied keys
PeakStepNoTies(acc, name, count) ==
  IF count > acc.max
  THEN [peaks |-> <<name>>, max |-> count]
  ELSE acc

\* part_000:511-516, 523-528: one call of the forEach callback
PeakStep(acc, name, count) ==
  IF count > acc.max
  THEN [peaks |-> <<name>>, max |-> count]
  ELSE IF count = acc.max
       THEN [peaks |-> Append(acc.peaks, name), max |-> acc.max]
       ELSE acc

\* part_000:508-517: the forEach over the first n entries of the hour tally
RECURSIVE PeakHours(_, _)
PeakHours(entries, n) ==
  IF n = 0
  THEN [peaks |-> <<>>, max |-> 0]
  ELSE PeakStep(PeakHours(entries, n - 1), entries[n].key,
                entries[n].cast_count)

\* part_000:519-529: the same over the day tally, with the day's name
RECURSIVE PeakDays(_, _)
PeakDays(entries, n) ==
  IF n = 0
  THEN [peaks |-> <<>>, max |-> 0]
  ELSE PeakStep(PeakDays(entries, n - 1),
                daysOfWeek[parseInt(entries[n].key) + 1],
                entries[n].cast_count)

\* part_000:531-533
FormatHourEntry(e) ==
  [key |-> e.key \o ":00-" \o e.key \o ":59 UTC", cast_count |-> e.cast_count]

\* part_000:534-536
FormatDayEntry(e) ==
  [key |-> daysOfWeek[parseInt(e.key) + 1] \o " (UTC)",
   cast_count |-> e.cast_count]

MapSeq(Op(_), seq) == [i \in 1..Len(seq) |-> Op(seq[i])]

\* Array.prototype.join
RECURSIVE Join(_, _)
Join(strs, sep) ==
  IF Len(strs) = 0 THEN ""
  ELSE IF Len(strs) = 1 THEN strs[1]
       ELSE strs[1] \o sep \o Join(Tail(strs), sep)

HourColon(h) == h \o ":00"
HourColonUTC(h) == h \o ":00 UTC"

\* part_000:538-544
Summary(cs, peakDays, peakHours) ==
  "Based on " \o ToString(Len(cs)) \o " of their recent casts (up to "
    \o ToString(MAX_CASTS_TO_FETCH_FOR_POST_TIME_ANALYSIS)
    \o " analyzed), times reported in UTC: "
    \o (IF Len(peakDays) > 0 /\ Len(peakHours) > 0
        THEN "This user most frequently posts on " \o Join(peakDays, ", ")
               \o " (UTC), particularly around "
               \o Join(MapSeq(HourColon, peakHours), ", ") \o " UTC. "
        ELSE "Could not determine clear peak posting times from the available cast data.")
    \o " (Note: This analysis is based on the user's own posting frequency in UTC. Convert to local timezone (e.g., IST is UTC+5:30) for local insights. True optimal times would correlate this with audience engagement.)"

\* an emptiness test that never succeeds
IsEmptyNever(cs) == FALSE

\* part_000:480, 578: casts.length === 0
IsEmpty(cs) == Len(cs) = 0

\* part_000:479-555: the local variables at the return and the value returned
analyzeOptimalPostingTimesUTC(cs) ==
  IF IsEmpty(cs)
  THEN [hourlyActivity |-> <<>>, dailyActivity |-> <<>>,
        peakHoursUTC |-> <<>>, maxCastsInHour |-> 0,
        peakDaysUTC |-> <<>>, maxCastsInDay |-> 0,
        result |->
          [summary |-> "No cast data available to analyze posting times.",
           hourly_activity_utc |-> <<>>,
           daily_activity_utc |-> <<>>]]
  ELSE LET tally == TallyLoop(cs, Len(cs))
           hourEntries == ObjectEntries(tally.hourly)
           dayEntries == ObjectEntries(tally.daily)
           hours == PeakHours(hourEntries, Len(hourEntries))
           days == PeakDays(dayEntries, Len(dayEntries))
       IN [hourlyActivity |-> tally.hourly, dailyActivity |-> tally.daily,
           peakHoursUTC |-> hours.peaks, maxCastsInHour |-> hours.max,
           peakDaysUTC |-> days.peaks, maxCastsInDay |-> days.max,
           result |->
             [summary |-> Summary(cs, days.peaks, hours.peaks),
              reference_timezone |-> "UTC",
              peak_posting_hours_utc |-> MapSeq(HourColonUTC, hours.peaks),
              peak_posting_days_utc |-> days.peaks,
              hourly_activity_utc |-> MapSeq(FormatHourEntry, hourEntries),
              daily_activity_utc |-> MapSeq(FormatDayEntry, dayEntries),
              total_casts_analyzed |-> Len(cs)]]

(***************************************************************************)
(* The source of fetchAllUserCasts: what one castsByFid response can hold. *)
(***************************************************************************)
\* FarcasterMessage (part_000:410-421), up to what the filter reads
MessageShapes ==
  { [type |-> "MESSAGE_TYPE_CAST_ADD", castAddBody |-> TRUE],
    [type |-> "MESSAGE_TYPE_CAST_ADD", castAddBody |-> FALSE],
    [type |-> "MESSAGE_TYPE_CAST_REMOVE", castAddBody |-> TRUE] }

\* nextPageToken of a response: absent, the empty string, or a real token
PageTokens == {Undefined, "", "tok"}

\* the message lists of at most n messages
PageShapes(n) == UNION { [1..k -> MessageShapes] : k \in 0..n }

\* every message of a run has its own hash, its rank in the source's stream,
\* and the messages are posted TimestampStep seconds apart
TimestampStep == 7 * 3600
Stamp(shapes, base) ==
  [i \in 1..Len(shapes) |->
     [type |-> shapes[i].type, castAddBody |-> shapes[i].castAddBody,
      timestamp |-> (base + i) * TimestampStep, hash |-> base + i]]

\* args.fid, a string of digits (part_000:561)
Fids == {"7", "942471"}

\* err.response?.data?.message || err.message (part_000:469)
ErrMessages == {"", "Network Error"}

(***************************************************************************)
(* fetchAllUserCasts (part_000:434-476)                                    *)
(***************************************************************************)
\* a JavaScript string or undefined used as a condition
Truthy(tok) == tok # Undefined /\ tok # ""

\* the filter predicate of line 455
IsCastAddTypeOnly(msg) == msg.type = "MESSAGE_TYPE_CAST_ADD"
IsCastAdd(msg) == msg.type = "MESSAGE_TYPE_CAST_ADD" /\ msg.castAddBody

\* messages.filter(...) of line 455
castAddMessages(messages) == SelectSeq(messages, IsCastAdd)

\* allCasts.push(...castAddMessages) of line 457
PushFront(acc, items) == items \o acc
Push(acc, items) == acc \o items

\* allCasts.slice(0, MAX) of line 463
SliceNone(s, n) == s
Slice0(s, n) == SubSeq(s, 1, Min(n, Len(s)))

\* lines 461-465: the accumulator after the limit test
LimitCastsOff(acc) == acc
LimitCasts(acc) ==
  IF Len(acc) >= MAX_CASTS_TO_FETCH_FOR_POST_TIME_ANALYSIS
    THEN Slice0(acc, MAX_CASTS_TO_FETCH_FOR_POST_TIME_ANALYSIS)
    ELSE acc

\* lines 459-465: the token the loop condition will test
LimitTokenKept(acc, tok) == tok
LimitToken(acc, tok) ==
  IF Len(acc) >= MAX_CASTS_TO_FETCH_FOR_POST_TIME_ANALYSIS
    THEN Undefined
    ELSE tok

\* line 472: while (nextPageToken)
LoopOnce(tok) == "done"
LoopNext(tok) == IF Truthy(tok) THEN "fetch" ELSE "done"

\* line 470: break
CatchRetry(tok) == "fetch"
CatchNext(tok) == "done"

\* line 469
ErrorString(m) == "Neynar Hub API error (castsByFid): " \o m

\* a qualifying item, as the specification words it: a cast-add message
\* that has a cast-add body
Qualifies(m) == m.type = "MESSAGE_TYPE_CAST_ADD" /\ m.castAddBody = TRUE

\* analyzeOptimalPostingTime.run after fetchAllUserCasts returned
\* (part_000:569-594); analysis: null is the string "null"
RunReport(f, cs, fetchCastsError) ==
  IF Truthy(fetchCastsError)
  THEN [error |-> "Failed to fetch casts: " \o fetchCastsError,
        analysis |-> "null",
        target_fid |-> f,
        reference_timezone |-> "UTC"]
  ELSE IF IsEmpty(cs)
       THEN [summary |-> "No casts found for FID " \o f \o " to analyze.",
             target_fid |-> f,
             reference_timezone |-> "UTC",
             hourly_activity_utc |-> <<>>,
             daily_activity_utc |-> <<>>,
             total_casts_analyzed |-> 0]
       ELSE [target_fid |-> f] @@ analyzeOptimalPostingTimesUTC(cs).result

\* the report once the loop of fetchAllUserCasts is left: run has no await
\* after line 567
ReportAt(state, f, cs, fetchCastsError) ==
  IF state = "done" THEN RunReport(f, cs, fetchCastsError)
  ELSE [notReturned |-> TRUE]

\* One iteration of the do-while whose request succeeds (lines 443-465, 472).
\* messagesPresent = FALSE is a response without a messages field (line 454).
FetchPage(shapes, messagesPresent, tok) ==
  /\ pc = "fetch"
  /\ requests < MaxRequests
  /\ LET messages == IF messagesPresent THEN Stamp(shapes, Len(fetched))
                                        ELSE <<>>
         pushed == Push(allCasts, castAddMessages(messages))
         token == LimitToken(pushed, tok)
     IN /\ requests' = requests + 1
        /\ fetched' = fetched \o messages
        /\ rawCount' = Len(pushed)
        /\ respToken' = tok
        /\ shortPage' = (shortPage \/
              (Truthy(tok) /\
               Len(SelectSeq(messages, Qualifies)) < CAST_FETCH_PAGE_SIZE))
        /\ allCasts' = LimitCasts(pushed)
        /\ nextPageToken' = token
        /\ pc' = LoopNext(token)
        /\ report' = ReportAt(LoopNext(token), fid, LimitCasts(pushed), error)
  /\ UNCHANGED <<fid, error, notCastVars>>

\* One iteration whose request throws (lines 467-471).
FetchFails(m) ==
  /\ pc = "fetch"
  /\ requests < MaxRequests
  /\ requests' = requests + 1
  /\ error' = ErrorString(m)
  /\ pc' = CatchNext(nextPageToken)
  /\ report' = ReportAt(CatchNext(nextPageToken), fid, allCasts,
                        ErrorString(m))
  /\ UNCHANGED <<fid, allCasts, nextPageToken, fetched, rawCount, respToken,
                 shortPage, notCastVars>>

FetchSome ==
  \E shapes \in PageShapes(MaxMessages - Len(fetched)), tok \in PageTokens :
     FetchPage(shapes, TRUE, tok)

FetchNoMessages == \E tok \in PageTokens : FetchPage(<<>>, FALSE, tok)

FetchError == \E m \in ErrMessages : FetchFails(m)

\* lines 564, 435-437
Init ==
  /\ fid \in Fids
  /\ report = [notReturned |-> TRUE]
  /\ pc = "fetch"
  /\ allCasts = <<>>
  /\ nextPageToken = Undefined
  /\ error = Undefined
  /\ requests = 0
  /\ fetched = <<>>
  /\ rawCount = 0
  /\ respToken = Undefined
  /\ shortPage = FALSE
  /\ IdleFollowers
  /\ IdleTime
  /\ IdleAnalysis
  /\ IdlePulse
  /\ IdleStartup
  /\ IdlePersona
  /\ IdleSearch
  /\ IdleCrafter
  /\ IdleDigest
  /\ IdleSegments

Next == FetchSome \/ FetchNoMessages \/ FetchError

Spec == Init /\ [][Next]_vars

(***************************************************************************)
(* Properties of fetchAllUserCasts (specification Spec)                    *)
(***************************************************************************)
QualifyingFetched == SelectSeq(fetched, Qualifies)
IsPrefix(s, t) == Len(s) <= Len(t) /\ s = SubSeq(t, 1, Len(s))
Returned == pc = "done"

\* C1: the list returned by fetchAllUserCasts has at most
\* MAX_CASTS_TO_FETCH_FOR_POST_TIME_ANALYSIS items, whatever the source
\* served.
C1_AtMostMaxItems ==
  Returned => Len(allCasts) <= MAX_CASTS_TO_FETCH_FOR_POST_TIME_ANALYSIS

\* a run that received more qualifying items than the limit and returned
C1_Witness ==
  /\ Returned
  /\ Len(QualifyingFetched) > MAX_CASTS_TO_FETCH_FOR_POST_TIME_ANALYSIS
  /\ Len(allCasts) = MAX_CASTS_TO_FETCH_FOR_POST_TIME_ANALYSIS

\* C2 as stated: no run issues more than ceil(maxItems / pageSize) + 1 page
\* requests, whatever the source returns on each page.
C2_RequestsBounded == requests <= RequestBound

\* C2 amended: a run in which every page that carried a continuation token
\* held at least pageSize qualifying messages issues no more than
\* ceil(maxItems / pageSize) + 1 page requests.
C2_RequestsBoundedWhenPagesFull == ~shortPage => requests <= RequestBound

\* the limit was reached by full pages only, the last one carrying a token
C2_Witness ==
  /\ Returned /\ ~shortPage /\ Truthy(respToken)
  /\ requests = RequestBound - 1
  /\ rawCount >= MAX_CASTS_TO_FETCH_FOR_POST_TIME_ANALYSIS

\* C3: when no request failed and the source served fewer than maxItems
\* qualifying items in all, the function returns only after a page without a
\* continuation token, and it returns exactly the qualifying items served,
\* with an undefined error.
C3_ReturnsAllWhenBelowLimit ==
  (/\ Returned
   /\ error = Undefined
   /\ Len(QualifyingFetched) < MAX_CASTS_TO_FETCH_FOR_POST_TIME_ANALYSIS)
  => (~Truthy(respToken) /\ allCasts = QualifyingFetched)

\* several pages, some messages dropped by the filter, one item returned
C3_Witness ==
  /\ Returned /\ error = Undefined /\ requests >= 2
  /\ Len(QualifyingFetched) < MAX_CASTS_TO_FETCH_FOR_POST_TIME_ANALYSIS
  /\ Len(allCasts) >= 1
  /\ Len(fetched) > Len(allCasts)

\* C4: the returned list is a prefix of the qualifying items of the pages
\* fetched, concatenated in request order.
C4_PrefixOfPagesInOrder == Returned => IsPrefix(allCasts, QualifyingFetched)

\* items of two different pages were returned and a later one was cut off
C4_Witness ==
  /\ Returned /\ requests >= 2
  /\ Len(allCasts) >= 2
  /\ allCasts[1].hash + 1 < allCasts[2].hash
  /\ Len(QualifyingFetched) > Len(allCasts)

\* C5: a page that brings the accumulated count to maxItems or more leaves
\* the accumulator at exactly maxItems and ends the run, and no request is
\* issued after the run has ended.
C5_StopAtLimit ==
  [][ /\ (/\ requests' = requests + 1
          /\ error' = error
          /\ rawCount' >= MAX_CASTS_TO_FETCH_FOR_POST_TIME_ANALYSIS)
         => (/\ Len(allCasts') = MAX_CASTS_TO_FETCH_FOR_POST_TIME_ANALYSIS
             /\ pc' = "done")
      /\ (pc = "done" => requests' = requests) ]_vars

\* the page that crossed the limit carried a continuation token
C5_Witness ==
  /\ Returned /\ Truthy(respToken)
  /\ rawCount > MAX_CASTS_TO_FETCH_FOR_POST_TIME_ANALYSIS
  /\ Len(allCasts) = MAX_CASTS_TO_FETCH_FOR_POST_TIME_ANALYSIS

\* C6: a failed page request ends the run: the accumulator is left as the
\* earlier pages made it, the error string is not empty, and no request
\* follows the failure.
C6_FailureStopsAndKeepsItems ==
  [][ error' # Undefined =>
        (/\ allCasts' = allCasts
         /\ error' # ""
         /\ pc' = "done"
         /\ (error # Undefined => requests' = requests)) ]_vars

\* the failure came after a page that had items and a continuation token
C6_Witness ==
  /\ Returned /\ error # Undefined
  /\ Len(allCasts) >= 1
  /\ Truthy(nextPageToken)
  /\ requests >= 2

\* C7: every item of the accumulator is a cast-add message with a body, and
\* the count tested against maxItems never exceeds the number of such
\* messages received.
C7_OnlyCastAddWithBody ==
  /\ \A i \in 1..Len(allCasts) :
        /\ allCasts[i].type = "MESSAGE_TYPE_CAST_ADD"
        /\ allCasts[i].castAddBody = TRUE
  /\ rawCount <= Len(QualifyingFetched)

\* a run that received a cast-add without a body and a message of another
\* type, and returned at least one item
C7_Witness ==
  /\ Returned /\ Len(allCasts) >= 1
  /\ \E i \in 1..Len(fetched) :
        fetched[i].type = "MESSAGE_TYPE_CAST_ADD" /\ ~fetched[i].castAddBody
  /\ \E i \in 1..Len(fetched) : fetched[i].type # "MESSAGE_TYPE_CAST_ADD"

(***************************************************************************)
(* Properties of the report of analyzeOptimalPostingTime (specification    *)
(* Spec)                                                                   *)
(***************************************************************************)
HasField(r, name) == name \in DOMAIN r
NoRequestFailed == error = Undefined

\* C14: when zero casts were collected and no request failed, the report has
\* empty hourly and daily tallies, no peak hour and no peak day, and a
\* summary saying that no casts were found; it reports no peak at all.
C14_NoCastsNoPeak ==
  (Returned /\ NoRequestFailed /\ Len(allCasts) = 0) =>
    /\ report.hourly_activity_utc = <<>>
    /\ report.daily_activity_utc = <<>>
    /\ ~HasField(report, "peak_posting_hours_utc")
    /\ ~HasField(report, "peak_posting_days_utc")
    /\ report.summary = "No casts found for FID " \o fid \o " to analyze."
    /\ report.total_casts_analyzed = 0

\* two requests were answered, with messages that do not qualify, and no
\* cast was collected
C14_Witness ==
  /\ Returned
  /\ NoRequestFailed
  /\ requests = 2
  /\ Len(fetched) >= 2
  /\ Len(allCasts) = 0
  /\ HasField(report, "summary")

\* C17 as stated: when a page request fails after some casts were
\* accumulated, the report still contains the posting-time analysis of the
\* casts accumulated before the failure.
C17_FailureKeepsAnalysis ==
  (Returned /\ ~NoRequestFailed /\ Len(allCasts) > 0) =>
    /\ HasField(report, "total_casts_analyzed")
    /\ HasField(report, "peak_posting_hours_utc")
    /\ HasField(report, "hourly_activity_utc")

(***************************************************************************)
(* JavaScript string methods used by the agents                            *)
(***************************************************************************)
UpperCaseLetters ==
  <<"A", "B", "C", "D", "E", "F", "G", "H", "I", "J", "K", "L", "M", "N",
    "O", "P", "Q", "R", "S", "T", "U", "V", "W", "X", "Y", "Z">>
LowerCaseLetters ==
  <<"a", "b", "c", "d", "e", "f", "g", "h", "i", "j", "k", "l", "m", "n",
    "o", "p", "q", "r", "s", "t", "u", "v", "w", "x", "y", "z">>

LowerChar(c) ==
  IF \E i \in 1..26 : UpperCaseLetters[i] = c
  THEN LowerCaseLetters[CHOOSE i \in 1..26 : UpperCaseLetters[i] = c]
  ELSE c

\* String.prototype.toLowerCase
RECURSIVE toLowerCase(_)
toLowerCase(str) ==
  IF Len(str) = 0 THEN ""
  ELSE LowerChar(SubSeq(str, 1, 1)) \o toLowerCase(SubSeq(str, 2, Len(str)))

\* String.prototype.includes
includes(str, needle) ==
  \E i \in 1..(Len(str) - Len(needle) + 1) :
     SubSeq(str, i, i + Len(needle) - 1) = needle

\* String.prototype.substring(0, n)
substring0(str, n) == SubSeq(str, 1, Min(n, Len(str)))

IsSpace(c) == c = " " \/ c = "\n"

\* String.prototype.trim
RECURSIVE trim(_)
trim(str) ==
  IF Len(str) = 0 THEN ""
  ELSE IF IsSpace(SubSeq(str, 1, 1)) THEN trim(SubSeq(str, 2, Len(str)))
  ELSE IF IsSpace(SubSeq(str, Len(str), Len(str)))
       THEN trim(SubSeq(str, 1, Len(str) - 1))
       ELSE str

\* String.prototype.replace(/\n/g, " ")
RECURSIVE replaceNewlines(_)
replaceNewlines(str) ==
  IF Len(str) = 0 THEN ""
  ELSE (IF SubSeq(str, 1, 1) = "\n" THEN " " ELSE SubSeq(str, 1, 1))
         \o replaceNewlines(SubSeq(str, 2, Len(str)))

\* a || b on strings that may be undefined
Or(a, b) == IF Truthy(a) THEN a ELSE b

(***************************************************************************)
(* getTrueAudienceProfile.run, collection and de-duplication               *)
(* (index.ts:180-218)                                                      *)
(***************************************************************************)
\* one entry of followersResponse.users: a NeynarFollower (index.ts:28-31)
\* whose user may be missing
FollowShapes ==
  {[hasUser |-> FALSE, fid |-> 0]} \cup
  {[hasUser |-> TRUE, fid |-> f] : f \in 0..MaxFid}

UserPages(n) == UNION { [1..k -> FollowShapes] : k \in 0..n }

\* next?.cursor of a response: absent (or null), the empty string, a cursor
Cursors == {Undefined, "", "cur"}

\* index.ts:77
FollowerErrorString(m) == "Neynar API error (followers): " \o m

\* index.ts:199: follow.user && follow.user.fid
HasFid(follow) == follow.hasUser /\ follow.fid # 0

\* index.ts:198-202: the FIDs pushed for one page, in page order
PageFids(users) ==
  LET kept == SelectSeq(users, HasFid)
  IN [i \in 1..Len(kept) |-> kept[i].fid]

\* the limit without the remainder
FollowerLimitBatch(count) == FOLLOWER_FETCH_BATCH_SIZE

\* index.ts:186
FollowerLimit(count) ==
  Min(FOLLOWER_FETCH_BATCH_SIZE, MAX_FOLLOWERS_TO_PROCESS - count)

\* removing index i of a sequence (Array.prototype.splice(i, 1))
RemoveAt(s, i) == SubSeq(s, 1, i - 1) \o SubSeq(s, i + 1, Len(s))

\* a de-duplication that splices repeated values out of the array it is
\* walking, and so skips the element that follows each removal
RECURSIVE SpliceLoop(_, _, _)
SpliceLoop(arr, i, seen) ==
  IF i > Len(arr) THEN arr
  ELSE IF arr[i] \in seen
         THEN SpliceLoop(RemoveAt(arr, i), i + 1, seen)
         ELSE SpliceLoop(arr, i + 1, seen \cup {arr[i]})
DedupeSplice(ids) == SpliceLoop(ids, 1, {})

\* no de-duplication at all
DedupeNone(ids) == ids

\* index.ts:217: [...new Set(ids)].  A Set keeps each value once, in the
\* order of first insertion, and the spread lists it in that order.
Dedupe(ids) ==
  LET set[i \in 0..Len(ids)] ==
        IF i = 0 THEN <<>>
        ELSE IF \E j \in 1..Len(set[i - 1]) : set[i - 1][j] = ids[i]
               THEN set[i - 1]
               ELSE Append(set[i - 1], ids[i])
  IN set[Len(ids)]

\* a NeynarUserProfile (index.ts:33-50) without a bio: the profile of a FID
FollowerCountStep == 150
ProfileOf(f) ==
  [fid |-> f, power_badge |-> (f % 2 = 0),
   follower_count |-> FollowerCountStep * f]

\* Array.prototype.sort((a, b) => b.follower_count - a.follower_count): a
\* stable sort, largest first
InsertByCountDesc(sorted, x) ==
  LET behind == Cardinality({i \in 1..Len(sorted) :
                              sorted[i].follower_count >= x.follower_count})
  IN SubSeq(sorted, 1, behind) \o <<x>> \o SubSeq(sorted, behind + 1, Len(sorted))
SortByCountDesc(seq) ==
  LET sorted[i \in 0..Len(seq)] ==
        IF i = 0 THEN <<>> ELSE InsertByCountDesc(sorted[i - 1], seq[i])
  IN sorted[Len(seq)]

HasPowerBadge(f) == f.power_badge
SampleEntry(f) == [fid |-> f.fid, follower_count |-> f.follower_count]
\* index.ts:160, 161: slice(0, 10)
FirstTen(seq) == SubSeq(seq, 1, Min(SEGMENT_SAMPLE_SIZE, Len(seq)))

\* index.ts:124-125, without the test of the power badge
IsHighBadgeBlind(f, highFollowerThreshold) ==
  /\ f.follower_count >= highFollowerThreshold
  /\ f.follower_count > MIN_HIGH_FOLLOWER_COUNT

\* index.ts:124-125
IsHighFollowerCount(f, highFollowerThreshold) ==
  /\ f.follower_count >= highFollowerThreshold
  /\ f.follower_count > MIN_HIGH_FOLLOWER_COUNT
  /\ ~f.power_badge

\* index.ts:100-166, for profiles without a bio (no keyword, no channel)
analyzeFollowerSegments(followers) ==
  IF Len(followers) = 0
  THEN [power_followers_sample |-> <<>>,
        high_engagement_potential_sample |-> <<>>,
        common_bio_keywords |-> <<>>,
        common_channel_mentions_in_bio |-> <<>>,
        total_followers_analyzed |-> 0,
        analysis_note |-> "No follower profiles provided for analysis."]
  ELSE LET followerCounts == SortByCountDesc(followers)
           top10PercentileIndex == Len(followers) \div TOP_PERCENTILE_DIVISOR
           highFollowerThreshold ==
             followerCounts[Min(top10PercentileIndex, Len(followers) - 1) + 1]
               .follower_count
           IsHigh(f) == IsHighFollowerCount(f, highFollowerThreshold)
       IN [power_followers_sample |->
             MapSeq(SampleEntry, FirstTen(SelectSeq(followers, HasPowerBadge))),
           high_engagement_potential_sample |->
             MapSeq(SampleEntry,
                    FirstTen(SortByCountDesc(SelectSeq(followers, IsHigh)))),
           common_bio_keywords |-> <<>>,
           common_channel_mentions_in_bio |-> <<>>,
           total_followers_analyzed |-> Len(followers)]

\* an early report that leaves the target out
NoFollowersReportNoEcho(f, fetchErr) ==
  [error |-> IF Truthy(fetchErr)
             THEN "Could not fetch followers: " \o fetchErr
             ELSE "No followers found for FID " \o f \o ".",
   analysis_summary |-> "Analysis cannot proceed without follower data.",
   segments |-> analyzeFollowerSegments(<<>>)]

\* index.ts:220-228: the report when no FID was collected
NoFollowersReport(f, fetchErr) ==
  [target_fid |-> f,
   error |-> IF Truthy(fetchErr)
             THEN "Could not fetch followers: " \o fetchErr
             ELSE "No followers found for FID " \o f \o ".",
   analysis_summary |-> "Analysis cannot proceed without follower data.",
   segments |-> analyzeFollowerSegments(<<>>)]

\* a report after the hydration loop whose error field is never deleted
HydratedReportKeepsError(f, fids, profiles, fetchErr, bulkErr) ==
  IF Len(profiles) = 0 /\ ~Truthy(bulkErr)
  THEN [target_fid |-> f,
        error |-> IF Truthy(fetchErr)
                  THEN "Follower FIDs collected, but failed to hydrate profiles. Initial fetch error: " \o fetchErr
                  ELSE "Follower FIDs collected, but failed to hydrate any profiles.",
        analysis_summary |-> "Analysis aborted due to inability to hydrate follower profiles.",
        segments |-> analyzeFollowerSegments(<<>>)]
  ELSE LET responseReport ==
             [target_fid |-> f,
              analysis_summary |->
                "Analyzed " \o ToString(Len(profiles)) \o " followers (from "
                  \o ToString(Len(fids)) \o " collected FIDs, up to "
                  \o ToString(MAX_FOLLOWERS_TO_PROCESS) \o " processed).",
              segments |-> analyzeFollowerSegments(profiles),
              data_fetching_notes |->
                [initial_follower_fetch_error |-> fetchErr,
                 bulk_profile_fetch_error |-> bulkErr]]
       IN IF Truthy(fetchErr) \/ Truthy(bulkErr)
          THEN responseReport @@
                 [error |-> "There were errors during data fetching. Results might be incomplete."]
          ELSE responseReport @@ [error |-> Undefined]

\* index.ts:249-275: the report after the hydration loop
HydratedReport(f, fids, profiles, fetchErr, bulkErr) ==
  IF Len(profiles) = 0 /\ ~Truthy(bulkErr)
  THEN [target_fid |-> f,
        error |-> IF Truthy(fetchErr)
                  THEN "Follower FIDs collected, but failed to hydrate profiles. Initial fetch error: " \o fetchErr
                  ELSE "Follower FIDs collected, but failed to hydrate any profiles.",
        analysis_summary |-> "Analysis aborted due to inability to hydrate follower profiles.",
        segments |-> analyzeFollowerSegments(<<>>)]
  ELSE LET responseReport ==
             [target_fid |-> f,
              analysis_summary |->
                "Analyzed " \o ToString(Len(profiles)) \o " followers (from "
                  \o ToString(Len(fids)) \o " collected FIDs, up to "
                  \o ToString(MAX_FOLLOWERS_TO_PROCESS) \o " processed).",
              segments |-> analyzeFollowerSegments(profiles),
              data_fetching_notes |->
                [initial_follower_fetch_error |-> fetchErr,
                 bulk_profile_fetch_error |-> bulkErr]]
       IN IF Truthy(fetchErr) \/ Truthy(bulkErr)
          THEN responseReport @@
                 [error |-> "There were errors during data fetching. Results might be incomplete."]
          ELSE responseReport

\* slices that all start at the head of the list
ChunkFromHead(fids, i) ==
  SubSeq(fids, 1, Min(i + BULK_USER_FETCH_CHUNK_SIZE, Len(fids)))

\* index.ts:234
ChunkAt(fids, i) ==
  SubSeq(fids, i + 1, Min(i + BULK_USER_FETCH_CHUNK_SIZE, Len(fids)))

\* The loop is left (index.ts:185, 187, 194, 209, 213), line 217 runs, and
\* run returns at once when no FID was collected (index.ts:220-228);
\* otherwise the first chunk is requested (index.ts:233-236).
LeaveLoop(ids, fetchErr) ==
  /\ collected' = ids
  /\ allFollowerFids' = Dedupe(ids)
  /\ IF Len(Dedupe(ids)) = 0
     THEN /\ fpc' = "returned"
          /\ followerReport' = NoFollowersReport(targetFid, fetchErr)
          /\ UNCHANGED bulkRequests
     ELSE /\ fpc' = "deduped"
          /\ bulkRequests' = <<ChunkAt(Dedupe(ids), 0)>>
          /\ UNCHANGED followerReport

\* a loop that goes on without a cursor
FollowerLoopGoesOnBelowMax(cur, count) == count < MAX_FOLLOWERS_TO_PROCESS

\* index.ts:208-215, 185: the loop goes on to another request
FollowerLoopGoesOn(cur, count) ==
  Truthy(cur) /\ count < MAX_FOLLOWERS_TO_PROCESS

\* One iteration of the while loop whose request succeeds
\* (index.ts:186-214), followed by line 217 when the loop is left.
\* usersPresent = FALSE is a response without a users field.
FollowersPage(users, usersPresent, cur) ==
  /\ fpc = "collect"
  /\ followerRequests < MaxFollowerRequests
  /\ FollowerLimit(fetchedFollowersCount) > 0
  /\ LET counted == usersPresent /\ Len(users) > 0
         ids == IF counted THEN allFollowerFids \o PageFids(users)
                           ELSE allFollowerFids
         count == IF counted THEN fetchedFollowersCount + Len(users)
                             ELSE fetchedFollowersCount
     IN /\ followerRequests' = followerRequests + 1
        /\ usersServed' = usersServed + (IF usersPresent THEN Len(users) ELSE 0)
        /\ fetchedFollowersCount' = count
        /\ cursor' = cur
        /\ oversized' = (oversized \/ (usersPresent /\ Len(users) > requestedLimit))
        /\ IF FollowerLoopGoesOn(cur, count)
             THEN /\ allFollowerFids' = ids
                  /\ fpc' = "collect"
                  /\ requestedLimit' = FollowerLimit(count)
                  /\ UNCHANGED <<collected, followerReport, bulkRequests>>
             ELSE /\ LeaveLoop(ids, fetchError)
                  /\ UNCHANGED requestedLimit
  /\ UNCHANGED <<fetchError, targetFid, chunkStart,
                 followerProfilesToAnalyze, bulkFetchError, bulkAnswers,
                 notFollowerVars>>

\* One iteration whose request fails (index.ts:191-195), followed by line 217.
FollowersFail(m) ==
  /\ fpc = "collect"
  /\ followerRequests < MaxFollowerRequests
  /\ FollowerLimit(fetchedFollowersCount) > 0
  /\ followerRequests' = followerRequests + 1
  /\ fetchError' = FollowerErrorString(m)
  /\ LeaveLoop(allFollowerFids, FollowerErrorString(m))
  /\ UNCHANGED <<fetchedFollowersCount, cursor, usersServed, targetFid,
                 chunkStart, followerProfilesToAnalyze, bulkFetchError,
                 requestedLimit, oversized, bulkAnswers, notFollowerVars>>

FollowersSome ==
  \E users \in UserPages(MaxUsers - usersServed), cur \in Cursors :
     FollowersPage(users, TRUE, cur)

FollowersNoUsers == \E cur \in Cursors : FollowersPage(<<>>, FALSE, cur)

FollowersError == \E m \in ErrMessages : FollowersFail(m)

\* what the /user/bulk request of one chunk can do: throw, answer without a
\* users field, answer with no profile, answer with the profiles asked for,
\* answer with one of them twice
BulkOutcomes(chunk) ==
  {[kind |-> "throws", usersPresent |-> FALSE, users |-> <<>>],
   [kind |-> "data", usersPresent |-> FALSE, users |-> <<>>],
   [kind |-> "data", usersPresent |-> TRUE, users |-> <<>>],
   [kind |-> "data", usersPresent |-> TRUE, users |-> MapSeq(ProfileOf, chunk)],
   [kind |-> "data", usersPresent |-> TRUE,
    users |-> MapSeq(ProfileOf, chunk) \o MapSeq(ProfileOf, SubSeq(chunk, 1, 1))]}

\* index.ts:81-96
fetchBulkUsers(outcome) ==
  IF outcome.kind = "data"
  THEN [usersPresent |-> outcome.usersPresent, users |-> outcome.users,
        error |-> Undefined]
  ELSE [usersPresent |-> FALSE, users |-> <<>>,
        error |-> "Neynar API error (bulk users): Network Error"]

\* One iteration of the hydration loop (index.ts:233-245), followed by
\* lines 247-275 when the loop is left.
BulkChunk(outcome) ==
  /\ fpc \in {"deduped", "hydrate"}
  /\ LET bulkUsersData == fetchBulkUsers(outcome)
         bulkErr ==
           IF Truthy(bulkUsersData.error)
           THEN Or(bulkFetchError, "") \o "Chunk "
                  \o ToString((chunkStart \div BULK_USER_FETCH_CHUNK_SIZE) + 1)
                  \o " error: " \o bulkUsersData.error \o "; "
           ELSE bulkFetchError
         profiles ==
           IF bulkUsersData.usersPresent
           THEN followerProfilesToAnalyze \o bulkUsersData.users
           ELSE followerProfilesToAnalyze
         next == chunkStart + BULK_USER_FETCH_CHUNK_SIZE
     IN /\ bulkFetchError' = bulkErr
        /\ followerProfilesToAnalyze' = profiles
        /\ chunkStart' = next
        /\ bulkAnswers' =
             Append(bulkAnswers, IF bulkUsersData.usersPresent
                                 THEN bulkUsersData.users ELSE <<>>)
        /\ IF next < Len(allFollowerFids)
           THEN /\ fpc' = "hydrate"
                /\ bulkRequests' =
                     Append(bulkRequests, ChunkAt(allFollowerFids, next))
                /\ UNCHANGED followerReport
           ELSE /\ fpc' = "returned"
                /\ UNCHANGED bulkRequests
                /\ followerReport' =
                     HydratedReport(targetFid, allFollowerFids, profiles,
                                    fetchError, bulkErr)
  /\ UNCHANGED <<targetFid, allFollowerFids, fetchedFollowersCount, cursor,
                 fetchError, collected, followerRequests, usersServed,
                 requestedLimit, oversized, notFollowerVars>>

FollowersBulk ==
  /\ fpc \in {"deduped", "hydrate"}
  /\ \E o \in BulkOutcomes(ChunkAt(allFollowerFids, chunkStart)) : BulkChunk(o)

\* index.ts:177-183
InitFollowers ==
  /\ fpc = "collect"
  /\ targetFid \in Fids
  /\ followerReport = [notReturned |-> TRUE]
  /\ chunkStart = 0
  /\ followerProfilesToAnalyze = <<>>
  /\ bulkFetchError = Undefined
  /\ allFollowerFids = <<>>
  /\ fetchedFollowersCount = 0
  /\ cursor = Undefined
  /\ fetchError = Undefined
  /\ collected = <<>>
  /\ followerRequests = 0
  /\ usersServed = 0
  /\ requestedLimit = FollowerLimit(0)
  /\ oversized = FALSE
  /\ bulkRequests = <<>>
  /\ bulkAnswers = <<>>
  /\ IdleCasts
  /\ IdleTime
  /\ IdleAnalysis
  /\ IdlePulse
  /\ IdleStartup
  /\ IdlePersona
  /\ IdleSearch
  /\ IdleCrafter
  /\ IdleDigest
  /\ IdleSegments

NextFollowers ==
  FollowersSome \/ FollowersNoUsers \/ FollowersError \/ FollowersBulk

SpecFollowers == InitFollowers /\ [][NextFollowers]_vars

(***************************************************************************)
(* Properties of the de-duplication (specification SpecFollowers)          *)
(***************************************************************************)
SeqRange(s) == {s[i] : i \in 1..Len(s)}
Occurrences(s, x) == Cardinality({i \in 1..Len(s) : s[i] = x})

\* line 217 of index.ts has run
Deduped == fpc \in {"deduped", "hydrate", "returned"}

\* C8: the de-duplication is idempotent: applied to the de-duplicated list
\* of any collected sequence of FIDs, it gives that list back.
C8_DedupeIdempotent ==
  Deduped => Dedupe(allFollowerFids) = allFollowerFids

\* a collected sequence that held a FID three times and another FID
C8_Witness ==
  /\ fpc = "deduped"
  /\ \E x \in SeqRange(collected) : Occurrences(collected, x) >= 3
  /\ Cardinality(SeqRange(collected)) >= 2

\* C9: the de-duplicated list holds every FID of the collected sequence
\* exactly once, and no FID that was not collected.
C9_DedupeExactlyDistinct ==
  Deduped =>
    /\ SeqRange(allFollowerFids) = SeqRange(collected)
    /\ \A x \in SeqRange(collected) : Occurrences(allFollowerFids, x) = 1

\* a collected sequence over two pages with a FID repeated across them
C9_Witness ==
  /\ fpc = "deduped" /\ followerRequests >= 2
  /\ Len(collected) > Len(allFollowerFids)
  /\ Len(allFollowerFids) >= 2

(***************************************************************************)
(* One timestamp and its bucket keys (part_000:494-501)                    *)
(***************************************************************************)
\* the raw timestamps tried: every hour of the days 0..MaxDay, at the first,
\* second, middle and last second of the hour
Timestamps ==
  { d * 86400 + h * 3600 + sec :
      d \in 0..MaxDay, h \in 0..23, sec \in {0, 1, 1800, 3599} }

\* part_000:494-501, for one cast
Bucketize ==
  /\ tpc = "convert"
  /\ LET utcDate == farcasterEpochToDate(fcTimestamp)
     IN /\ hourKey' = HourKey(getUTCHours(utcDate))
        /\ dayKey' = DayKey(getUTCDay(utcDate))
  /\ tpc' = "bucketed"
  /\ UNCHANGED <<fcTimestamp, notTimeVars>>

InitTime ==
  /\ tpc = "convert"
  /\ fcTimestamp \in Timestamps
  /\ hourKey = ""
  /\ dayKey = ""
  /\ IdleCasts
  /\ IdleFollowers
  /\ IdleAnalysis
  /\ IdlePulse
  /\ IdleStartup
  /\ IdlePersona
  /\ IdleSearch
  /\ IdleCrafter
  /\ IdleDigest
  /\ IdleSegments

NextTime == Bucketize

SpecTime == InitTime /\ [][NextTime]_vars

(***************************************************************************)
(* Properties of the bucket keys (specification SpecTime)                  *)
(***************************************************************************)
DecimalDigit == <<"0", "1", "2", "3", "4", "5", "6", "7", "8", "9">>
TwoDigits(n) == DecimalDigit[(n \div 10) + 1] \o DecimalDigit[(n % 10) + 1]

\* C10: a raw timestamp t >= 0 gets the hour bucket floor(t / 3600) mod 24
\* and the weekday bucket (5 + floor(t / 86400)) mod 7 (0 = Sunday); the
\* timestamp 0 gets hour 0 and weekday 5, a Friday.
C10_BucketsOfTimestamp ==
  tpc = "bucketed" =>
    /\ hourKey = TwoDigits((fcTimestamp \div 3600) % 24)
    /\ dayKey = DecimalDigit[((5 + (fcTimestamp \div 86400)) % 7) + 1]
    /\ (fcTimestamp = 0 => hourKey = "00" /\ dayKey = "5")

\* the last second of a Saturday, a week and a day after the epoch
C10_Witness ==
  /\ tpc = "bucketed"
  /\ fcTimestamp = 8 * 86400 + 23 * 3600 + 3599
  /\ hourKey = "23"
  /\ dayKey = "6"

(***************************************************************************)
(* One call of analyzeOptimalPostingTimesUTC (part_000:589)                *)
(***************************************************************************)
\* the hours of the day at which the analysed casts were posted: two whose
\* key is zero-padded and two whose key is a canonical array index
TallyHours == {3, 9, 14, 20}

\* the raw timestamps of the analysed casts, at the middle of the hour
TallyTimestamps ==
  { d * 86400 + h * 3600 + 1800 : d \in 0..MaxTallyDay, h \in TallyHours }

CastAt(t) == [type |-> "MESSAGE_TYPE_CAST_ADD", timestamp |-> t]

\* seven casts of one day whose hour tally is {9: 3, 14: 3, 20: 1}
WorkedExample ==
  <<CastAt(9 * 3600), CastAt(14 * 3600), CastAt(9 * 3600 + 60),
    CastAt(20 * 3600), CastAt(14 * 3600 + 60), CastAt(9 * 3600 + 120),
    CastAt(14 * 3600 + 120)>>

\* part_000:589: the casts handed over by run are not empty and were all
\* filtered to cast-add messages by fetchAllUserCasts
AnalysisInputs ==
  { [i \in 1..n |-> CastAt(ts[i])] :
      n \in 1..MaxTallyCasts, ts \in [1..MaxTallyCasts -> TallyTimestamps] }
  \cup {WorkedExample}

\* part_000:479-555, one call
Analyze ==
  /\ apc = "analyze"
  /\ LET r == analyzeOptimalPostingTimesUTC(casts)
     IN /\ hourlyActivity' = r.hourlyActivity
        /\ dailyActivity' = r.dailyActivity
        /\ peakHoursUTC' = r.peakHoursUTC
        /\ maxCastsInHour' = r.maxCastsInHour
        /\ peakDaysUTC' = r.peakDaysUTC
        /\ maxCastsInDay' = r.maxCastsInDay
        /\ analysisResult' = r.result
  /\ apc' = "analysed"
  /\ UNCHANGED <<casts, notAnalysisVars>>

InitAnalysis ==
  /\ apc = "analyze"
  /\ casts \in AnalysisInputs
  /\ hourlyActivity = <<>>
  /\ dailyActivity = <<>>
  /\ peakHoursUTC = <<>>
  /\ maxCastsInHour = 0
  /\ peakDaysUTC = <<>>
  /\ maxCastsInDay = 0
  /\ analysisResult = [notReturned |-> TRUE]
  /\ IdleCasts
  /\ IdleFollowers
  /\ IdleTime
  /\ IdlePulse
  /\ IdleStartup
  /\ IdlePersona
  /\ IdleSearch
  /\ IdleCrafter
  /\ IdleDigest
  /\ IdleSegments

NextAnalysis == Analyze

SpecAnalysis == InitAnalysis /\ [][NextAnalysis]_vars

(***************************************************************************)
(* Properties of the tallies and the peaks (specification SpecAnalysis)    *)
(***************************************************************************)
\* the hour of the day and the day of the week of a raw timestamp
HourOf(t) == (t \div 3600) % 24
WeekdayOf(t) == (5 + (t \div 86400)) % 7

RECURSIVE SumCounts(_)
SumCounts(obj) ==
  IF Len(obj) = 0 THEN 0 ELSE Head(obj).cast_count + SumCounts(Tail(obj))

CountOf(obj, key) ==
  IF \E i \in 1..Len(obj) : obj[i].key = key
  THEN obj[CHOOSE i \in 1..Len(obj) : obj[i].key = key].cast_count
  ELSE 0

DistinctKeys(obj) ==
  \A i, j \in 1..Len(obj) : obj[i].key = obj[j].key => i = j

CastsInHour(h) == Cardinality({i \in 1..Len(casts) : HourOf(casts[i].timestamp) = h})
CastsOnWeekday(d) ==
  Cardinality({i \in 1..Len(casts) : WeekdayOf(casts[i].timestamp) = d})

\* C11: after the tally loop the hourly counts and the daily counts both sum
\* to the number of casts passed in, every hour key is one of 00..23 and
\* every day key one of 0..6, and each bucket counts exactly the casts of its
\* hour (of its weekday): every cast incremented one hour bucket and one
\* weekday bucket by one.
C11_EveryCastInOneBucketEach ==
  apc = "analysed" =>
    /\ SumCounts(hourlyActivity) = Len(casts)
    /\ SumCounts(dailyActivity) = Len(casts)
    /\ DistinctKeys(hourlyActivity) /\ DistinctKeys(dailyActivity)
    /\ \A i \in 1..Len(hourlyActivity) :
         \E h \in 0..23 : hourlyActivity[i].key = TwoDigits(h)
    /\ \A i \in 1..Len(dailyActivity) :
         \E d \in 0..6 : dailyActivity[i].key = DecimalDigit[d + 1]
    /\ \A h \in 0..23 : CountOf(hourlyActivity, TwoDigits(h)) = CastsInHour(h)
    /\ \A d \in 0..6 :
         CountOf(dailyActivity, DecimalDigit[d + 1]) = CastsOnWeekday(d)

\* three casts: two in the same hour of the same day, one on another day
C11_Witness ==
  /\ apc = "analysed"
  /\ Len(casts) = 3
  /\ \E i \in 1..Len(hourlyActivity) : hourlyActivity[i].cast_count = 2
  /\ Len(hourlyActivity) = 2
  /\ Len(dailyActivity) = 2

MaxOf(S) == CHOOSE m \in S : \A x \in S : x <= m
Counts(obj) == {obj[i].cast_count : i \in 1..Len(obj)}
KeysWithCount(obj, n) ==
  {obj[i].key : i \in {j \in 1..Len(obj) : obj[j].cast_count = n}}
Elements(seq) == {seq[i] : i \in 1..Len(seq)}
DayNameOfKey(key) == daysOfWeek[(CHOOSE d \in 0..6 : DecimalDigit[d + 1] = key) + 1]

\* C12: for a non-empty tally the peak list holds exactly the keys whose
\* count is the maximum count of the tally, each once, and the tracked peak
\* value is that maximum; the peak list is empty only when the tally is
\* empty.  For the hour tally {09: 3, 14: 3, 20: 1} the peaks are 09 and 14
\* with value 3.
C12_PeaksAreExactlyTheMaxima ==
  apc = "analysed" =>
    /\ Len(hourlyActivity) > 0 =>
         /\ maxCastsInHour = MaxOf(Counts(hourlyActivity))
         /\ Elements(peakHoursUTC) = KeysWithCount(hourlyActivity, maxCastsInHour)
         /\ Len(peakHoursUTC) = Cardinality(Elements(peakHoursUTC))
    /\ Len(dailyActivity) > 0 =>
         /\ maxCastsInDay = MaxOf(Counts(dailyActivity))
         /\ Elements(peakDaysUTC) =
              {DayNameOfKey(k) : k \in KeysWithCount(dailyActivity, maxCastsInDay)}
         /\ Len(peakDaysUTC) = Cardinality(Elements(peakDaysUTC))
    /\ (Len(peakHoursUTC) = 0 => Len(hourlyActivity) = 0)
    /\ (Len(peakDaysUTC) = 0 => Len(dailyActivity) = 0)
    /\ casts = WorkedExample =>
         /\ Elements(hourlyActivity) =
              {[key |-> "09", cast_count |-> 3], [key |-> "14", cast_count |-> 3],
               [key |-> "20", cast_count |-> 1]}
         /\ Elements(peakHoursUTC) = {"09", "14"}
         /\ maxCastsInHour = 3

\* the example: two hours tied at three casts, a third hour with one
C12_Witness ==
  /\ apc = "analysed"
  /\ casts = WorkedExample
  /\ Len(peakHoursUTC) = 2
  /\ maxCastsInHour = 3
  /\ Len(hourlyActivity) = 3

\* the distinct elements of a sequence in the order of their first occurrence
FirstSeen(seq) ==
  LET IsFirst(i) == \A j \in 1..(i - 1) : seq[j] # seq[i]
      F[i \in 0..Len(seq)] ==
        IF i = 0 THEN <<>>
        ELSE IF IsFirst(i) THEN Append(F[i - 1], seq[i]) ELSE F[i - 1]
  IN F[Len(seq)]

Restrict(seq, S) == LET In(x) == x \in S IN SelectSeq(seq, In)

RECURSIVE Ascending(_)
Ascending(S) ==
  IF S = {} THEN <<>>
  ELSE LET m == CHOOSE x \in S : \A y \in S : x <= y
       IN <<m>> \o Ascending(S \ {m})

\* the hours and weekdays of the casts, in the order of the casts
HoursOfCasts == [i \in 1..Len(casts) |-> HourOf(casts[i].timestamp)]
WeekdaysOfCasts == [i \in 1..Len(casts) |-> WeekdayOf(casts[i].timestamp)]
\* the hours and the weekdays with the most casts
TopHours ==
  {h \in 0..23 : CastsInHour(h) > 0 /\ \A g \in 0..23 : CastsInHour(g) <= CastsInHour(h)}
TopWeekdays ==
  {d \in 0..6 :
     CastsOnWeekday(d) > 0 /\ \A e \in 0..6 : CastsOnWeekday(e) <= CastsOnWeekday(d)}

HourName(h) == TwoDigits(h)
WeekdayName(d) == daysOfWeek[d + 1]
NamesOfHours(hs) == [i \in 1..Len(hs) |-> HourName(hs[i])]
NamesOfWeekdays(ds) == [i \in 1..Len(ds) |-> WeekdayName(ds[i])]

\* C13 as stated: tied peak keys appear in the peak list in the order in
\* which their buckets were first created while tallying the casts.
C13_TiedPeaksInFirstSeenOrder ==
  apc = "analysed" =>
    /\ peakHoursUTC = NamesOfHours(Restrict(FirstSeen(HoursOfCasts), TopHours))
    /\ peakDaysUTC =
         NamesOfWeekdays(Restrict(FirstSeen(WeekdaysOfCasts), TopWeekdays))

\* C13, amended: tied peak keys appear in the enumeration order of the tally
\* object: the keys that are canonical integers (every weekday key, the hour
\* keys 10..23) first, in ascending numeric order, then the zero-padded hour
\* keys 00..09 in the order in which their buckets were first created.
C13_TiedPeaksInEntriesOrder ==
  apc = "analysed" =>
    /\ peakHoursUTC =
         NamesOfHours(Ascending(TopHours \cap (10..23)) \o
                      Restrict(FirstSeen(HoursOfCasts), TopHours \cap (0..9)))
    /\ peakDaysUTC = NamesOfWeekdays(Ascending(TopWeekdays))

\* a cast at 09h on a Saturday, then one at 14h on the Friday before: both
\* peak lists are tied and neither is in first-seen order
C13_Witness ==
  /\ apc = "analysed"
  /\ Len(casts) = 2
  /\ HoursOfCasts = <<9, 14>>
  /\ WeekdaysOfCasts = <<6, 5>>
  /\ peakHoursUTC = <<"14", "09">>
  /\ peakDaysUTC = <<"Friday", "Saturday">>

(***************************************************************************)
(* The Farcaster Pulse agent (part_000:1-207)                              *)
(***************************************************************************)
\* what axios.post to xAI can do: answer with choices, answer without, throw
XaiContents ==
  {"Builders debate Frames v2. ", "  ", "Error: search unavailable",
   "Could not find related posts"}
XaiOutcomes ==
  {[kind |-> "choices", content |-> c, message |-> ""] : c \in XaiContents}
  \cup {[kind |-> "nochoices", content |-> "", message |-> ""]}
  \cup {[kind |-> "throws", content |-> "", message |-> "Network Error"]}

\* a request whose rejection is not caught
makeXaiRequestNoCatch(outcome) ==
  IF outcome.kind = "choices"
  THEN [content |-> trim(outcome.content), error |-> Undefined,
        thrown |-> FALSE]
  ELSE [content |-> Undefined, error |-> Undefined, thrown |-> TRUE]

\* part_000:35; thrown: the promise is rejected
makeXaiRequest(outcome) ==
  IF outcome.kind = "choices"
  THEN [content |-> trim(outcome.content), error |-> Undefined,
        thrown |-> FALSE]
  ELSE IF outcome.kind = "nochoices"
       THEN [content |-> Undefined,
             error |-> "xAI response structure invalid or no content.",
             thrown |-> FALSE]
       ELSE [content |-> Undefined,
             error |-> "xAI API error: " \o outcome.message,
             thrown |-> FALSE]

\* NeynarUser / NeynarCast (part_000:29-30), up to the fields run reads
CatalystShapes ==
  {[hash |-> "0xa1", fid |-> 3, username |-> u, text |-> t, channel |-> c] :
     u \in {Undefined, "dwr"},
     t \in {Undefined, "Frames v2\nship today"},
     c \in {Undefined, "dev"}}
ReplyShape == [hash |-> "0xb2", fid |-> 5, username |-> "vitalik", text |-> "gm"]
ReplyLists == UNION { [1..n -> {ReplyShape}] : n \in 0..MaxReplies }

\* what axios.get to Neynar can do: answer with a body that may lack the
\* casts field, answer without a body, throw
NeynarOutcomes(castLists) ==
  {[kind |-> "data", dataPresent |-> TRUE, castsPresent |-> TRUE,
    casts |-> cs, message |-> ""] : cs \in castLists}
  \cup {[kind |-> "data", dataPresent |-> TRUE, castsPresent |-> FALSE,
         casts |-> <<>>, message |-> ""],
        [kind |-> "data", dataPresent |-> FALSE, castsPresent |-> FALSE,
         casts |-> <<>>, message |-> ""],
        [kind |-> "throws", dataPresent |-> FALSE, castsPresent |-> FALSE,
         casts |-> <<>>, message |-> "Request failed with status code 500"]}

\* part_000:34
makeNeynarRequest(pathname, outcome) ==
  IF outcome.kind = "data"
  THEN [error |-> Undefined, dataPresent |-> outcome.dataPresent,
        castsPresent |-> outcome.castsPresent, casts |-> outcome.casts]
  ELSE [error |-> "Neynar API error for " \o pathname \o ": "
                    \o outcome.message,
        dataPresent |-> FALSE, castsPresent |-> FALSE, casts |-> <<>>]

\* result.data?.casts is undefined
NoCasts(result) == ~(result.dataPresent /\ result.castsPresent)
\* result.data?.casts || []
CastsOrEmpty(result) == IF NoCasts(result) THEN <<>> ELSE result.casts

\* a fetch that does not look at the parent's author
fetchCastRepliesUnguarded(parentCast, outcome) ==
  makeNeynarRequest("/v2/farcaster/feed", outcome)

\* part_000:48-66
fetchCastRepliesUsingParentUrl(parentCast, outcome) ==
  IF ~Truthy(parentCast.username) \/ ~Truthy(parentCast.hash)
  THEN [error |-> "Parent cast author username or hash is missing, cannot construct parent_url for replies.",
        dataPresent |-> FALSE, castsPresent |-> FALSE, casts |-> <<>>]
  ELSE makeNeynarRequest("/v2/farcaster/feed", outcome)

\* a summary that always asks for the local one
DiscussionRequestLocal(replies) == "replySummary"

\* part_000:71: the branch of summarizeFarcasterDiscussionOrXReactions, named
\* by the xAI request it issues (line 79 or line 86)
DiscussionRequest(replies) ==
  IF Len(replies) > 0 THEN "replySummary" ELSE "xSearch"

\* part_000:80, 100, 191: result.content || `Error ...: ${result.error}`
Narrative(content, explanation) == Or(content, explanation)

\* part_000:70
CatalystText(cast) == Or(cast.text, "a cast with no text")

\* part_000:80 and 87-90: the string summarizeFarcasterDiscussionOrXReactions
\* returns, given the request it issued and that request's result
DiscussionSummary(request, cast, result) ==
  IF request = "replySummary"
  THEN Narrative(result.content,
                 "Error summarizing Farcaster replies: " \o result.error)
  ELSE IF /\ Truthy(result.content)
          /\ ~includes(toLowerCase(result.content), "error")
          /\ ~includes(toLowerCase(result.content), "could not find")
       THEN "No direct Farcaster replies were available for analysis. However, related discussions on X (Twitter) in the last 24 hours about \""
              \o substring0(CatalystText(cast), 50) \o "...\" show: "
              \o result.content
       ELSE "No direct Farcaster replies were available for analysis, and could not fetch significant related X discussions for \""
              \o substring0(CatalystText(cast), 50)
              \o "...\". The catalyst cast's topic itself is the primary focus."

\* part_000:100
XEventsContext(result) ==
  Narrative(result.content,
            "Error fetching recent X events context: " \o result.error)

\* part_000:191
FinalSummary(result) ==
  Narrative(result.content, "Error in final synthesis: " \o result.error)

\* part_000:158
MainTopicForSearch(cast) ==
  IF cast.text = Undefined THEN "current Farcaster topics"
  ELSE Or(replaceNewlines(substring0(cast.text, 70)),
          "current Farcaster topics")

AuthorName(cast) == Or(cast.username, "FID " \o ToString(cast.fid))

\* part_000:132
OverviewEntry(c) ==
  [hash |-> c.hash, author |-> AuthorName(c),
   text_snippet |-> (IF c.text = Undefined THEN Undefined
                     ELSE substring0(c.text, 70)) \o "..."]

\* part_000:146-149
ReplySample(r) == [author |-> AuthorName(r), text |-> r.text]

\* new Date().toISOString() of line 114
AnalysisTimestamp == "2025-06-01T12:00:00.000Z"

\* part_000:112-118, with every later field undefined
NewPulseReport(f) ==
  [requesting_fid |-> f, analysis_timestamp |-> AnalysisTimestamp,
   errors |-> <<>>, steps |-> <<>>,
   trending_casts_overview_sample |-> <<>>,
   catalyst_cast_details |-> [none |-> TRUE],
   replies_sample |-> <<>>,
   discussion_summary |-> Undefined,
   derived_main_topic_for_search |-> Undefined,
   recent_x_events_context |-> Undefined,
   final_summary |-> Undefined]

Failure(bad, call) == IF bad THEN {call} ELSE {}
Last(seq) == seq[Len(seq)]

\* a fallback that records the error only
TrendingFallbackErrorOnly(rep, result) ==
  [rep EXCEPT
     !.errors = Append(@, "TrendingFeed: " \o
                  Or(result.error, "No trending casts found."))]

\* part_000:127-128
TrendingFallback(rep, result) ==
  [rep EXCEPT
     !.errors = Append(@, "TrendingFeed: " \o
                  Or(result.error, "No trending casts found.")),
     !.final_summary = "Could not identify a strong trending Farcaster conversation at this moment."]

\* part_000:121-141: the trending feed arrived
TrendingFeedResult(outcome) ==
  /\ ppc = "trending"
  /\ LET result == makeNeynarRequest("/v2/farcaster/feed/trending", outcome)
     IN IF Truthy(result.error) \/ NoCasts(result) \/ Len(result.casts) = 0
        THEN /\ pulseReport' = TrendingFallback(pulseReport, result)
             /\ failed' = failed \cup Failure(Truthy(result.error), "trendingFeed")
             /\ ppc' = "returned"
             /\ UNCHANGED <<catalystCast, calls>>
        ELSE /\ pulseReport' =
                  [pulseReport EXCEPT
                     !.steps = @ \o <<"trending_feed_fetched", "catalyst_identified">>,
                     !.trending_casts_overview_sample =
                        MapSeq(OverviewEntry, SubSeq(result.casts, 1,
                                                     Min(3, Len(result.casts)))),
                     !.catalyst_cast_details =
                        [hash |-> result.casts[1].hash,
                         author_fid |-> result.casts[1].fid,
                         author_username |-> AuthorName(result.casts[1]),
                         text |-> result.casts[1].text,
                         channel |-> Or(result.casts[1].channel, "N/A")]]
             /\ catalystCast' = result.casts[1]
             /\ calls' = Append(calls, "fetchCastReplies")
             /\ ppc' = "replies"
             /\ UNCHANGED failed
  /\ UNCHANGED <<viewerFid, directReplies, notPulseVars>>

\* part_000:141-154 and 69-86: the replies arrived, the discussion summary is
\* asked for
RepliesResult(outcome) ==
  /\ ppc = "replies"
  /\ LET repliesData == fetchCastRepliesUsingParentUrl(catalystCast, outcome)
         replies == CastsOrEmpty(repliesData)
     IN /\ pulseReport' =
             [pulseReport EXCEPT
                !.errors = IF Truthy(repliesData.error)
                           THEN Append(@, "CatalystReplies: " \o repliesData.error)
                           ELSE @,
                !.replies_sample =
                   IF Truthy(repliesData.error) THEN <<>>
                   ELSE LET sample == MapSeq(ReplySample, replies)
                        IN SubSeq(sample, 1, Min(5, Len(sample))),
                !.steps = Append(@, "replies_fetched")]
        /\ failed' = failed \cup
                       Failure(Truthy(repliesData.error), "fetchCastReplies")
        /\ directReplies' = replies
        /\ calls' = calls \o <<"summarize", DiscussionRequest(replies)>>
  /\ ppc' = "summary"
  /\ UNCHANGED <<viewerFid, catalystCast, notPulseVars>>

\* part_000:79-91, 154-162 and 94-99: the summary request returned, the
\* X-events request is issued
DiscussionResult(outcome) ==
  /\ ppc = "summary"
  /\ LET result == makeXaiRequest(outcome)
     IN IF result.thrown
        THEN ppc' = "thrown" /\ UNCHANGED <<pulseReport, calls, failed>>
        ELSE /\ pulseReport' =
                  [pulseReport EXCEPT
                     !.discussion_summary =
                        DiscussionSummary(Last(calls), catalystCast, result),
                     !.steps = Append(@, "discussion_summarized"),
                     !.derived_main_topic_for_search =
                        MainTopicForSearch(catalystCast)]
             /\ failed' = failed \cup Failure(~Truthy(result.content), Last(calls))
             /\ calls' = Append(calls, "xEvents")
             /\ ppc' = "xevents"
  /\ UNCHANGED <<viewerFid, catalystCast, directReplies, notPulseVars>>

\* part_000:99-100, 162-190: the X-events request returned, the synthesis
\* request is issued
XEventsResult(outcome) ==
  /\ ppc = "xevents"
  /\ LET result == makeXaiRequest(outcome)
     IN IF result.thrown
        THEN ppc' = "thrown" /\ UNCHANGED <<pulseReport, calls, failed>>
        ELSE /\ pulseReport' =
                  [pulseReport EXCEPT
                     !.recent_x_events_context = XEventsContext(result),
                     !.steps = Append(@, "x_events_context_fetched")]
             /\ failed' = failed \cup Failure(~Truthy(result.content), "xEvents")
             /\ calls' = Append(calls, "synthesis")
             /\ ppc' = "synthesis"
  /\ UNCHANGED <<viewerFid, catalystCast, directReplies, notPulseVars>>

\* part_000:190-197: the synthesis returned, run returns the report
SynthesisResult(outcome) ==
  /\ ppc = "synthesis"
  /\ LET result == makeXaiRequest(outcome)
     IN IF result.thrown
        THEN ppc' = "thrown" /\ UNCHANGED <<pulseReport, failed>>
        ELSE /\ pulseReport' =
                  [pulseReport EXCEPT
                     !.final_summary = FinalSummary(result),
                     !.steps = Append(@, "final_synthesis_complete")]
             /\ failed' = failed \cup Failure(~Truthy(result.content), "synthesis")
             /\ ppc' = "returned"
  /\ UNCHANGED <<viewerFid, catalystCast, directReplies, calls, notPulseVars>>

TrendingLists == {<<>>} \cup {<<c>> : c \in CatalystShapes}

PulseTrending == \E o \in NeynarOutcomes(TrendingLists) : TrendingFeedResult(o)
PulseReplies == \E o \in NeynarOutcomes(ReplyLists) : RepliesResult(o)
PulseDiscussion == \E o \in XaiOutcomes : DiscussionResult(o)
PulseXEvents == \E o \in XaiOutcomes : XEventsResult(o)
PulseSynthesis == \E o \in XaiOutcomes : SynthesisResult(o)

\* part_000:110-124: run was called and awaits the trending feed
InitPulse ==
  /\ ppc = "trending"
  /\ viewerFid \in Fids
  /\ catalystCast = [none |-> TRUE]
  /\ directReplies = <<>>
  /\ pulseReport = NewPulseReport(viewerFid)
  /\ calls = <<"trendingFeed">>
  /\ failed = {}
  /\ IdleCasts
  /\ IdleFollowers
  /\ IdleTime
  /\ IdleAnalysis
  /\ IdleStartup
  /\ IdlePersona
  /\ IdleSearch
  /\ IdleCrafter
  /\ IdleDigest
  /\ IdleSegments

NextPulse ==
  \/ PulseTrending
  \/ PulseReplies
  \/ PulseDiscussion
  \/ PulseXEvents
  \/ PulseSynthesis

SpecPulse == InitPulse /\ [][NextPulse]_vars

(***************************************************************************)
(* Properties of the Pulse run (specification SpecPulse)                   *)
(***************************************************************************)
CountOfCall(name) == Cardinality({i \in 1..Len(calls) : calls[i] = name})

\* C15: summarizeFarcasterDiscussionOrXReactions takes exactly one branch
\* and issues exactly one xAI request in it: the X search, and never the
\* reply summary, when there are no replies; the reply summary, and never
\* the X search, when there is at least one reply.  It is entered once and
\* neither request is ever issued again, whatever its result was.
C15_OneBranchOneRequest ==
  /\ CountOfCall("summarize") <= 1
  /\ CountOfCall("replySummary") + CountOfCall("xSearch")
       = CountOfCall("summarize")
  /\ CountOfCall("summarize") = 1 =>
       /\ Len(directReplies) = 0 =>
            CountOfCall("xSearch") = 1 /\ CountOfCall("replySummary") = 0
       /\ Len(directReplies) > 0 =>
            CountOfCall("replySummary") = 1 /\ CountOfCall("xSearch") = 0

\* no reply, the X search failed, and run went on to its end
C15_Witness ==
  /\ ppc = "returned"
  /\ Len(directReplies) = 0
  /\ "xSearch" \in failed
  /\ CountOfCall("xSearch") = 1
  /\ CountOfCall("synthesis") = 1

CatalystObtained == "hash" \in DOMAIN catalystCast
StagesOf(request) ==
  <<"trendingFeed", "fetchCastReplies", "summarize", request, "xEvents",
    "synthesis">>
StepsInOrder ==
  <<"trending_feed_fetched", "catalyst_identified", "replies_fetched",
    "discussion_summarized", "x_events_context_fetched",
    "final_synthesis_complete">>
StartsWith(str, prefix) ==
  Len(str) >= Len(prefix) /\ SubSeq(str, 1, Len(prefix)) = prefix

\* C16: once a catalyst cast was obtained, whatever fails, the stages run in
\* the order replies, discussion summary, recent-X-events context, final
\* synthesis, each once; the narrative field of a stage whose xAI request
\* failed holds an explanatory string; run does not throw and returns the
\* report.
C16_StagesInOrderFailuresExplained ==
  /\ ppc # "thrown"
  /\ CatalystObtained =>
       \E request \in {"replySummary", "xSearch"} :
          IsPrefix(calls, StagesOf(request))
  /\ (CatalystObtained /\ ppc = "returned") =>
       /\ \E request \in {"replySummary", "xSearch"} : calls = StagesOf(request)
       /\ pulseReport.steps = StepsInOrder
       /\ pulseReport.discussion_summary # Undefined
       /\ pulseReport.recent_x_events_context # Undefined
       /\ pulseReport.final_summary # Undefined
       /\ "replySummary" \in failed =>
            StartsWith(pulseReport.discussion_summary,
                       "Error summarizing Farcaster replies: ")
       /\ "xSearch" \in failed =>
            StartsWith(pulseReport.discussion_summary,
                       "No direct Farcaster replies were available for analysis, and could not fetch")
       /\ "xEvents" \in failed =>
            StartsWith(pulseReport.recent_x_events_context,
                       "Error fetching recent X events context: ")
       /\ "synthesis" \in failed =>
            StartsWith(pulseReport.final_summary, "Error in final synthesis: ")

\* the reply fetch and all three xAI requests failed, and run returned
C16_Witness ==
  /\ ppc = "returned"
  /\ CatalystObtained
  /\ {"fetchCastReplies", "xSearch", "xEvents", "synthesis"} \subseteq failed
  /\ Len(pulseReport.steps) = 6

(***************************************************************************)
(* The start of an agent process: the statements of each module that run   *)
(* when it is loaded                                                       *)
(***************************************************************************)
Agents ==
  {"pulse", "postingTime", "followerAnalyst", "digitalPersona", "search",
   "castCrafter", "strategicDigest"}

\* process.env.X: not set, set to the empty string, or set
EnvValues == {Undefined, "", "key-1"}
Environments == [NEYNAR_API_KEY : EnvValues, XAI_API_KEY : EnvValues]

\* the credential checks of each module, in program order; the keys of one
\* check are joined by ||
StartupChecks(agent) ==
  CASE agent = "pulse" -> <<{"NEYNAR_API_KEY", "XAI_API_KEY"}>>
    [] agent = "postingTime" -> <<{"NEYNAR_API_KEY"}>>
    [] agent = "followerAnalyst" -> <<{"NEYNAR_API_KEY"}>>
    [] agent = "digitalPersona" -> <<{"XAI_API_KEY"}, {"NEYNAR_API_KEY"}>>
    [] agent = "search" -> <<{"XAI_API_KEY"}>>
    [] agent = "castCrafter" -> <<{"NEYNAR_API_KEY", "XAI_API_KEY"}>>
    [] agent = "strategicDigest" -> <<{"NEYNAR_API_KEY"}, {"XAI_API_KEY"}>>

\* the capabilities each module registers, in program order
CapabilityNames(agent) ==
  CASE agent = "pulse" -> <<"analyzeFarcasterPulseWithXContext">>
    [] agent = "postingTime" -> <<"analyzeOptimalPostingTime">>
    [] agent = "followerAnalyst" -> <<"getTrueAudienceProfile">>
    [] agent = "digitalPersona" -> <<"analyzeUserPersona">>
    [] agent = "search" -> <<"searchXPlatform", "searchRssFeed", "searchWeb">>
    [] agent = "castCrafter" -> <<"suggestFarcasterCasts">>
    [] agent = "strategicDigest" -> <<"getFarcasterStrategicDigest">>

\* a check that fails only when every key of it is missing
CheckFailsAll(e, keys) == \A k \in keys : ~Truthy(e[k])

\* if (!a || !b)
CheckFails(e, keys) == \E k \in keys : ~Truthy(e[k])

\* some check of the module calls process.exit(1)
ExitsAtStartup(agent, e) ==
  \E i \in 1..Len(StartupChecks(agent)) : CheckFails(e, StartupChecks(agent)[i])

\* the credential checks: process.exit(1) or on to new Agent(...)
CheckCredentials ==
  /\ spc = "load"
  /\ IF ExitsAtStartup(agentName, env)
     THEN spc' = "exited" /\ exitStatus' = 1
     ELSE spc' = "construct" /\ UNCHANGED exitStatus
  /\ UNCHANGED <<agentName, env, capabilities, serverStarted, notStartupVars>>

\* const agent = new Agent({...})
ConstructAgent ==
  /\ spc = "construct"
  /\ spc' = "register"
  /\ UNCHANGED <<agentName, env, exitStatus, capabilities, serverStarted,
                 notStartupVars>>

\* agent.addCapability({...}), one call
AddCapability ==
  /\ spc = "register"
  /\ Len(capabilities) < Len(CapabilityNames(agentName))
  /\ capabilities' =
       Append(capabilities, CapabilityNames(agentName)[Len(capabilities) + 1])
  /\ spc' = IF Len(capabilities') = Len(CapabilityNames(agentName))
            THEN "start" ELSE "register"
  /\ UNCHANGED <<agentName, env, exitStatus, serverStarted, notStartupVars>>

\* agent.start()
StartServer ==
  /\ spc = "start"
  /\ serverStarted' = TRUE
  /\ spc' = "started"
  /\ UNCHANGED <<agentName, env, exitStatus, capabilities, notStartupVars>>

InitStartup ==
  /\ spc = "load"
  /\ agentName \in Agents
  /\ env \in Environments
  /\ exitStatus = Undefined
  /\ capabilities = <<>>
  /\ serverStarted = FALSE
  /\ IdleCasts
  /\ IdleFollowers
  /\ IdleTime
  /\ IdleAnalysis
  /\ IdlePulse
  /\ IdlePersona
  /\ IdleSearch
  /\ IdleCrafter
  /\ IdleDigest
  /\ IdleSegments

NextStartup ==
  \/ CheckCredentials
  \/ ConstructAgent
  \/ AddCapability
  \/ StartServer

SpecStartup == InitStartup /\ [][NextStartup]_vars

(***************************************************************************)
(* Properties of the start of an agent (specification SpecStartup)         *)
(***************************************************************************)
\* the credentials the requests of an agent are signed with
UsesNeynar ==
  {"pulse", "postingTime", "followerAnalyst", "digitalPersona", "castCrafter",
   "strategicDigest"}
UsesXai ==
  {"pulse", "digitalPersona", "search", "castCrafter", "strategicDigest"}
Absent(value) == value = Undefined \/ value = ""
RequiredAbsent ==
  \/ agentName \in UsesNeynar /\ Absent(env.NEYNAR_API_KEY)
  \/ agentName \in UsesXai /\ Absent(env.XAI_API_KEY)

\* C18: an agent process exits with status 1 at startup when a credential it
\* requires is absent (not set, or empty), before any capability is
\* registered and before the server is started; with every required
\* credential present it never exits.
C18_ExitWithoutCredentials ==
  spc # "idle" =>
    /\ RequiredAbsent =>
         /\ spc \in {"load", "exited"}
         /\ capabilities = <<>>
         /\ ~serverStarted
    /\ spc = "exited" => RequiredAbsent /\ exitStatus = 1
    /\ ~RequiredAbsent => spc # "exited"

\* the persona agent with the xAI key set and the Neynar key missing: its
\* second check exits
C18_Witness ==
  /\ spc = "exited"
  /\ agentName = "digitalPersona"
  /\ ~Absent(env.XAI_API_KEY)
  /\ Absent(env.NEYNAR_API_KEY)
  /\ exitStatus = 1

(***************************************************************************)
(* analyzeUserPersona (digital persona/index.ts:42-234)                    *)
(***************************************************************************)
XHandles == {"dwr", "vitalik"}
PersonaContents == {"", "Talks about Frames and L2s."}
\* what axios.post to xAI can do for the persona agent
PersonaXaiOutcomes ==
  {[kind |-> "choices", content |-> c, message |-> ""] : c \in PersonaContents}
  \cup {[kind |-> "nochoices", content |-> "", message |-> ""]}
  \cup {[kind |-> "throws", content |-> "", message |-> "Network Error"]}

\* index.ts:57-68
fetchXUserData(outcome) ==
  IF outcome.kind = "choices"
  THEN [content |-> outcome.content, error |-> Undefined]
  ELSE IF outcome.kind = "nochoices"
       THEN [content |-> Undefined,
             error |-> "No content from xAI analysis or invalid response structure."]
       ELSE [content |-> Undefined,
             error |-> "xAI API error: " \o outcome.message]

\* a user of /user/bulk, up to the fields run reads; NoUser: undefined
NoUser == [none |-> TRUE]
PersonaUsers ==
  {[fid |-> 3, username |-> u, display_name |-> "Dan"] :
     u \in {Undefined, "dwr.eth"}}
PersonaProfileOutcomes ==
  {[kind |-> "data", usersPresent |-> TRUE, users |-> <<u>>] : u \in PersonaUsers}
  \cup {[kind |-> "data", usersPresent |-> TRUE, users |-> <<>>],
        [kind |-> "data", usersPresent |-> FALSE, users |-> <<>>],
        [kind |-> "throws", usersPresent |-> FALSE, users |-> <<>>]}

\* index.ts:71-85
fetchFarcasterUserProfile(outcome) ==
  IF outcome.kind = "data"
  THEN IF outcome.usersPresent /\ Len(outcome.users) > 0
       THEN [user |-> outcome.users[1], error |-> Undefined]
       ELSE [user |-> NoUser,
             error |-> "Farcaster user not found or invalid response structure."]
  ELSE [user |-> NoUser,
        error |-> "Neynar API error (user profile): Network Error"]

PersonaCast == [text |-> "gm", timestamp |-> "2025-05-01T09:00:00.000Z",
                hash |-> "0xc3"]
PersonaCastsOutcomes ==
  {[kind |-> "data", castsPresent |-> TRUE, casts |-> <<PersonaCast>>],
   [kind |-> "data", castsPresent |-> TRUE, casts |-> <<>>],
   [kind |-> "data", castsPresent |-> FALSE, casts |-> <<>>],
   [kind |-> "throws", castsPresent |-> FALSE, casts |-> <<>>]}

\* index.ts:87-98; castsDefined: the casts field of the result is set
fetchFarcasterUserCasts(outcome) ==
  IF outcome.kind = "data"
  THEN [castsDefined |-> TRUE,
        casts |-> IF outcome.castsPresent THEN outcome.casts ELSE <<>>,
        error |-> Undefined]
  ELSE [castsDefined |-> FALSE, casts |-> <<>>,
        error |-> "Neynar API error (user casts): Network Error"]

\* index.ts:158-169; the prompt built at lines 107-151 is sent, not kept
synthesizePersona(outcome) ==
  IF outcome.kind = "choices"
  THEN [content |-> outcome.content, error |-> Undefined]
  ELSE IF outcome.kind = "nochoices"
       THEN [content |-> Undefined,
             error |-> "No content from xAI synthesis or invalid response structure."]
       ELSE [content |-> Undefined,
             error |-> "xAI API error (synthesis): " \o outcome.message]

\* index.ts:204
CastSample(c) == [text |-> c.text, timestamp |-> c.timestamp]
\* index.ts:197-208
FinalReport(x, f, xData, fcProfile, fcCasts) ==
  [x_handle |-> x,
   farcaster_fid |-> f,
   x_analysis |-> xData.content,
   x_error |-> xData.error,
   farcaster_profile |-> fcProfile.user,
   farcaster_profile_error |-> fcProfile.error,
   farcaster_recent_casts_sample |->
     [defined |-> fcCasts.castsDefined,
      items |-> MapSeq(CastSample,
                       SubSeq(fcCasts.casts, 1, Min(5, Len(fcCasts.casts))))],
   farcaster_casts_error |-> fcCasts.error,
   synthesized_persona |-> "",
   synthesis_error |-> ""]

\* index.ts:183, 210-212
UsernameOf(f, fcProfile) ==
  IF fcProfile.user # NoUser /\ Truthy(fcProfile.user.username)
  THEN fcProfile.user.username
  ELSE "FID " \o f

\* a run that goes on to the synthesis as soon as one promise has settled
PersonaSettleFirst(which, xData, fcProfile, fcCasts) ==
  /\ perpc = "fetch"
  /\ which \in pendingFetches
  /\ pendingFetches' = pendingFetches \ {which}
  /\ settledFetches' = Append(settledFetches, which)
  /\ xDataResult' = xData
  /\ fcProfileResult' = fcProfile
  /\ fcCastsResult' = fcCasts
  /\ perpc' = "synthesis"
  /\ personaReport' = [x_handle |-> xHandle, farcaster_fid |-> farcasterFid,
                       synthesized_persona |-> "", synthesis_error |-> ""]
  /\ personaCalls' = Append(personaCalls, "synthesizePersona")
  /\ UNCHANGED <<farcasterUsername, xHandle, farcasterFid, notPersonaVars>>

\* One of the three promises of lines 187-189 settles; when it is the last,
\* Promise.all resolves and run goes on to the call of line 216.
PersonaSettle(which, xData, fcProfile, fcCasts) ==
  /\ perpc = "fetch"
  /\ which \in pendingFetches
  /\ pendingFetches' = pendingFetches \ {which}
  /\ settledFetches' = Append(settledFetches, which)
  /\ xDataResult' = xData
  /\ fcProfileResult' = fcProfile
  /\ fcCastsResult' = fcCasts
  /\ IF pendingFetches = {which}
     THEN /\ perpc' = "synthesis"
          /\ personaReport' =
               FinalReport(xHandle, farcasterFid, xData, fcProfile, fcCasts)
          /\ farcasterUsername' = UsernameOf(farcasterFid, fcProfile)
          /\ personaCalls' = Append(personaCalls, "synthesizePersona")
     ELSE UNCHANGED <<perpc, personaReport, farcasterUsername, personaCalls>>
  /\ UNCHANGED <<xHandle, farcasterFid, notPersonaVars>>

PersonaXData ==
  \E o \in PersonaXaiOutcomes :
    PersonaSettle("fetchXUserData", fetchXUserData(o), fcProfileResult,
                  fcCastsResult)
PersonaProfile ==
  \E o \in PersonaProfileOutcomes :
    PersonaSettle("fetchFarcasterUserProfile", xDataResult,
                  fetchFarcasterUserProfile(o), fcCastsResult)
PersonaCasts ==
  \E o \in PersonaCastsOutcomes :
    PersonaSettle("fetchFarcasterUserCasts", xDataResult, fcProfileResult,
                  fetchFarcasterUserCasts(o))

\* a run without the fallback of lines 227-229
PersonaSynthesisNoFallback(outcome) ==
  /\ perpc = "synthesis"
  /\ LET synthesisResult == synthesizePersona(outcome)
     IN personaReport' =
          [personaReport EXCEPT
             !.synthesized_persona = Or(synthesisResult.content, ""),
             !.synthesis_error = Or(synthesisResult.error, "")]
  /\ perpc' = "returned"
  /\ UNCHANGED <<xHandle, farcasterFid, farcasterUsername, pendingFetches,
                 xDataResult, fcProfileResult, fcCastsResult, personaCalls,
                 settledFetches, notPersonaVars>>

\* index.ts:216-232
PersonaSynthesisResult(outcome) ==
  /\ perpc = "synthesis"
  /\ LET synthesisResult == synthesizePersona(outcome)
     IN personaReport' =
          [personaReport EXCEPT
             !.synthesized_persona = Or(synthesisResult.content, ""),
             !.synthesis_error =
               IF ~Truthy(synthesisResult.content)
                  /\ ~Truthy(synthesisResult.error)
               THEN "Synthesis step did not produce content or an error."
               ELSE Or(synthesisResult.error, "")]
  /\ perpc' = "returned"
  /\ UNCHANGED <<xHandle, farcasterFid, farcasterUsername, pendingFetches,
                 xDataResult, fcProfileResult, fcCastsResult, personaCalls,
                 settledFetches,
                 notPersonaVars>>
PersonaSynthesis == \E o \in PersonaXaiOutcomes : PersonaSynthesisResult(o)

PersonaFetches ==
  <<"fetchXUserData", "fetchFarcasterUserProfile", "fetchFarcasterUserCasts">>

\* index.ts:182-189: the three fetches are started before anything is awaited
InitPersona ==
  /\ perpc = "fetch"
  /\ xHandle \in XHandles
  /\ farcasterFid \in Fids
  /\ farcasterUsername = "FID " \o farcasterFid
  /\ pendingFetches = {PersonaFetches[i] : i \in 1..3}
  /\ xDataResult = [pending |-> TRUE]
  /\ fcProfileResult = [pending |-> TRUE]
  /\ fcCastsResult = [pending |-> TRUE]
  /\ personaReport = [notReturned |-> TRUE]
  /\ personaCalls = PersonaFetches
  /\ settledFetches = <<>>
  /\ IdleCasts
  /\ IdleFollowers
  /\ IdleTime
  /\ IdleAnalysis
  /\ IdlePulse
  /\ IdleStartup
  /\ IdleSearch
  /\ IdleCrafter
  /\ IdleDigest
  /\ IdleSegments

NextPersona ==
  PersonaXData \/ PersonaProfile \/ PersonaCasts \/ PersonaSynthesis

SpecPersona == InitPersona /\ [][NextPersona]_vars

(***************************************************************************)
(* The search agent (part_001:19-111)                                      *)
(***************************************************************************)
Queries == {"farcaster frames", "base l2 fees"}
RssUrls == {"https://cointelegraph.com/rss"}

\* what axios.post can do for commonXaiRequest: a body with an error field, a
\* body with choices, a body without usable choices, a rejection by axios
\* with or without a response, a rejection that is not an axios error
SearchOutcomes ==
  {[kind |-> "apiError", text |-> m, status |-> 0] :
     m \in {Undefined, "model overloaded"}}
  \cup {[kind |-> "choices", text |-> c, status |-> 0] :
          c \in {"Frames v2 shipped this week.", ""}}
  \cup {[kind |-> "invalid", text |-> "", status |-> 0]}
  \cup {[kind |-> "axiosError", text |-> m, status |-> st] :
          m \in {Undefined, "bad gateway"}, st \in {0, 401, 429, 502}}
  \cup {[kind |-> "otherError", text |-> "socket hang up", status |-> 0]}

\* part_001:30-41; notSent: the function returns before any request
SourcesFor(type, url) ==
  IF type = "x" THEN [notSent |-> FALSE, sources |-> <<[type |-> "x"]>>]
  ELSE IF type = "web" THEN [notSent |-> FALSE, sources |-> <<[type |-> "web"]>>]
  ELSE IF type = "rss" /\ Truthy(url)
       THEN [notSent |-> FALSE,
             sources |-> <<[type |-> "rss", links |-> <<url>>]>>]
       ELSE IF type = "rss"
            THEN [notSent |-> TRUE, sources |-> <<>>]
            ELSE [notSent |-> FALSE, sources |-> <<>>]

\* part_001:50-79
commonXaiRequest(outcome) ==
  IF outcome.kind = "apiError"
  THEN "Error from x.ai API: " \o Or(outcome.text, "Unknown API error")
  ELSE IF outcome.kind = "choices" THEN outcome.text
  ELSE IF outcome.kind = "invalid"
       THEN "Error: Received an invalid response structure from the x.ai API."
  ELSE IF outcome.kind = "axiosError"
       THEN IF outcome.status = 401
            THEN "Error: Authentication failed with x.ai API. Please check your XAI_API_KEY. (Status: 401)"
            ELSE IF outcome.status = 429
                 THEN "Error: x.ai API rate limit exceeded. Please wait and try again later. (Status: 429)"
                 ELSE "Error: An API error occurred with x.ai. Status: "
                        \o (IF outcome.status = 0 THEN "N/A"
                            ELSE ToString(outcome.status))
                        \o ", Message: "
                        \o Or(outcome.text, "No specific message from API.")
  ELSE "Error: An unexpected error occurred while contacting the x.ai API: "
         \o outcome.text

\* part_001:43-79, 88, 99, 109: the capability returns the string as it is
SearchAnswer(outcome) ==
  /\ srpc = "request"
  /\ searchResult' = commonXaiRequest(outcome)
  /\ srpc' = "returned"
  /\ UNCHANGED <<searchType, query, rssUrl, searchSources, notSearchVars>>
SearchResult == \E o \in SearchOutcomes : SearchAnswer(o)

\* part_001:81-111, 19-42: a capability was called with arguments its schema
\* accepts, and the request was sent
InitSearch ==
  /\ srpc = "request"
  /\ searchType \in {"x", "rss", "web"}
  /\ query \in Queries
  /\ rssUrl \in (IF searchType = "rss" THEN RssUrls ELSE {Undefined})
  /\ searchSources = SourcesFor(searchType, rssUrl).sources
  /\ searchResult = Undefined
  /\ IdleCasts
  /\ IdleFollowers
  /\ IdleTime
  /\ IdleAnalysis
  /\ IdlePulse
  /\ IdleStartup
  /\ IdlePersona
  /\ IdleCrafter
  /\ IdleDigest
  /\ IdleSegments

NextSearch == SearchResult

SpecSearch == InitSearch /\ [][NextSearch]_vars

(***************************************************************************)
(* The Farcaster Cast Crafter (part_001:157-323)                           *)
(***************************************************************************)
\* what axios.post to xAI can do: choices with a content, a body without
\* usable choices, a rejection
CrafterContents ==
  {"frames, l2 fees, onchain art", "  ", "No error in sight: ship it."}
CrafterXaiOutcomes ==
  {[kind |-> "choices", content |-> c, message |-> ""] : c \in CrafterContents}
  \cup {[kind |-> "invalid", content |-> "", message |-> ""]}
  \cup {[kind |-> "throws", content |-> "", message |-> "Network Error"]}

\* part_001:166-176
makeXaiRequestCrafter(outcome) ==
  IF outcome.kind = "choices"
  THEN [content |-> trim(outcome.content), error |-> Undefined]
  ELSE IF outcome.kind = "invalid"
       THEN [content |-> Undefined, error |-> "xAI response invalid."]
       ELSE [content |-> Undefined, error |-> "xAI: " \o outcome.message]

\* NeynarUser and NeynarCast (part_001:151-152); bio: profile.bio.text
CrafterUsers ==
  {[fid |-> 3, username |-> Undefined, bio |-> Undefined],
   [fid |-> 3, username |-> "dwr.eth", bio |-> "Building Farcaster"]}
CrafterCastLists ==
  {<<>>, <<[text |-> "Frames v2 is live"], [text |-> Undefined]>>}
CrafterUserOutcomes ==
  {[kind |-> "throws", listPresent |-> FALSE, list |-> <<>>],
   [kind |-> "data", listPresent |-> FALSE, list |-> <<>>],
   [kind |-> "data", listPresent |-> TRUE, list |-> <<>>]}
  \cup {[kind |-> "data", listPresent |-> TRUE, list |-> <<u>>] :
          u \in CrafterUsers}
CrafterCastsOutcomes ==
  {[kind |-> "throws", listPresent |-> FALSE, list |-> <<>>],
   [kind |-> "data", listPresent |-> FALSE, list |-> <<>>]}
  \cup {[kind |-> "data", listPresent |-> TRUE, list |-> l] :
          l \in CrafterCastLists}

\* part_001:157-164; list: responseData.users or responseData.casts
makeNeynarRequestCrafter(outcome) ==
  IF outcome.kind = "data"
  THEN [listPresent |-> outcome.listPresent, list |-> outcome.list,
        error |-> Undefined]
  ELSE [listPresent |-> FALSE, list |-> <<>>,
        error |-> "Neynar: Network Error"]

CrafterTimestamp == "2025-06-02T08:30:00.000Z"
\* part_001:238-244
NewCrafterReport(args) ==
  [farcasterFid |-> args.farcasterFid, xHandle |-> args.xHandle,
   timestamp |-> CrafterTimestamp,
   intermediate_data |->
     [farcaster_bio |-> Undefined,
      farcaster_casts_summary_input |-> Undefined,
      x_activity_summary |-> Undefined,
      derived_interests |-> Undefined,
      recent_x_events |-> Undefined],
   cast_suggestions |-> "Could not generate suggestions.",
   errors |-> <<>>]

PushIf(cond, list, item) == IF cond THEN Append(list, item) ELSE list
TextOf(c) == c.text
TruthyText(t) == Truthy(t)

\* part_001:248-251
WithFcData(rep, data) ==
  LET fcCastsTextForSummary ==
        substring0(Join(SelectSeq(MapSeq(TextOf, data.casts), TruthyText),
                        "\n"), 1000)
  IN [rep EXCEPT
        !.errors = PushIf(Truthy(data.error), @, data.error),
        !.intermediate_data.farcaster_bio =
           IF data.user = NoUser THEN Undefined ELSE data.user.bio,
        !.intermediate_data.farcaster_casts_summary_input =
           substring0(fcCastsTextForSummary, 100) \o "..."]

\* part_001:180-183, then 248-255 when the user was not found
CrafterUserAnswer(outcome) ==
  /\ crpc = "user"
  /\ LET userResult == makeNeynarRequestCrafter(outcome)
     IN /\ crafterFailed' =
             crafterFailed \cup Failure(Truthy(userResult.error), "user")
        /\ IF Truthy(userResult.error) \/ ~userResult.listPresent
              \/ Len(userResult.list) = 0
           THEN LET data ==
                      [user |-> NoUser, casts |-> <<>>,
                       error |-> "Failed to fetch Farcaster user FID "
                                   \o crafterArgs.farcasterFid \o ": "
                                   \o Or(userResult.error, "User not found")]
                IN /\ fcData' = data
                   /\ crafterReport' = WithFcData(crafterReport, data)
                   /\ crpc' = "xActivity"
                   /\ crafterCalls' = Append(crafterCalls, "xActivity")
           ELSE /\ fcData' = [user |-> userResult.list[1], casts |-> <<>>,
                              error |-> Undefined]
                /\ crpc' = "casts"
                /\ crafterCalls' = Append(crafterCalls, "casts")
                /\ UNCHANGED crafterReport
  /\ UNCHANGED <<crafterArgs, notCrafterVars>>

\* part_001:184-186, then 248-255
CrafterCastsAnswer(outcome) ==
  /\ crpc = "casts"
  /\ LET castsResult == makeNeynarRequestCrafter(outcome)
         data == [user |-> fcData.user,
                  casts |-> IF castsResult.listPresent
                            THEN castsResult.list ELSE <<>>,
                  error |-> castsResult.error]
     IN /\ crafterFailed' =
             crafterFailed \cup Failure(Truthy(castsResult.error), "casts")
        /\ fcData' = data
        /\ crafterReport' = WithFcData(crafterReport, data)
  /\ crpc' = "xActivity"
  /\ crafterCalls' = Append(crafterCalls, "xActivity")
  /\ UNCHANGED <<crafterArgs, notCrafterVars>>

\* part_001:192-193
summarizeXUserActivity(handle, result) ==
  Or(result.content,
     "Could not summarize X activity for @" \o handle \o ": "
       \o Or(result.error, "No specific themes found."))

\* part_001:255-257, then the call of line 265
CrafterXActivityAnswer(outcome) ==
  /\ crpc = "xActivity"
  /\ LET result == makeXaiRequestCrafter(outcome)
         xActivitySummary == summarizeXUserActivity(crafterArgs.xHandle, result)
     IN /\ crafterFailed' =
             crafterFailed \cup Failure(Truthy(result.error), "xActivity")
        /\ crafterReport' =
             [crafterReport EXCEPT
                !.intermediate_data.x_activity_summary = xActivitySummary,
                !.errors =
                   PushIf(includes(toLowerCase(xActivitySummary),
                                   "could not summarize"),
                          @, xActivitySummary)]
  /\ crpc' = "interests"
  /\ crafterCalls' = Append(crafterCalls, "interests")
  /\ UNCHANGED <<crafterArgs, fcData, notCrafterVars>>

\* part_001:208-209
deriveCombinedInterests(result) ==
  Or(result.content,
     "Could not derive combined interests: "
       \o Or(result.error, "Analysis inconclusive."))

\* part_001:213: the search of findRecentXEvents is not made
SearchSkipped(interests) ==
  \/ includes(toLowerCase(interests), "could not derive")
  \/ includes(toLowerCase(interests), "error")

\* part_001:222-223
findRecentXEvents(result) ==
  Or(result.content,
     "Could not find recent X events for the given interests: "
       \o Or(result.error, "No specific events found."))

\* part_001:275-276
WithRecentXEvents(rep, recentXEvents) ==
  [rep EXCEPT
     !.intermediate_data.recent_x_events = recentXEvents,
     !.errors =
        PushIf(\/ includes(toLowerCase(recentXEvents), "cannot search")
               \/ includes(toLowerCase(recentXEvents), "could not find"),
               @, recentXEvents)]

\* part_001:265-271, then findRecentXEvents up to its request (212-222), or,
\* when it makes none, lines 274-311
CrafterInterestsAnswer(outcome) ==
  /\ crpc = "interests"
  /\ LET result == makeXaiRequestCrafter(outcome)
         combinedInterests == deriveCombinedInterests(result)
         rep == [crafterReport EXCEPT
                   !.intermediate_data.derived_interests = combinedInterests,
                   !.errors =
                      PushIf(includes(toLowerCase(combinedInterests),
                                      "could not derive"),
                             @, combinedInterests)]
     IN /\ crafterFailed' =
             crafterFailed \cup Failure(Truthy(result.error), "interests")
        /\ IF SearchSkipped(combinedInterests)
           THEN /\ crafterReport' =
                     WithRecentXEvents(rep,
                       "Cannot search for X events without derived interests.")
                /\ crpc' = "suggestions"
                /\ crafterCalls' = Append(crafterCalls, "suggestions")
           ELSE /\ crafterReport' = rep
                /\ crpc' = "xEvents"
                /\ crafterCalls' = Append(crafterCalls, "xEvents")
  /\ UNCHANGED <<crafterArgs, fcData, notCrafterVars>>

\* part_001:222-223, 274-311
CrafterXEventsAnswer(outcome) ==
  /\ crpc = "xEvents"
  /\ LET result == makeXaiRequestCrafter(outcome)
     IN /\ crafterFailed' =
             crafterFailed \cup Failure(Truthy(result.error), "xEvents")
        /\ crafterReport' =
             WithRecentXEvents(crafterReport, findRecentXEvents(result))
  /\ crpc' = "suggestions"
  /\ crafterCalls' = Append(crafterCalls, "suggestions")
  /\ UNCHANGED <<crafterArgs, fcData, notCrafterVars>>

\* part_001:311-322
CrafterSuggestionsAnswer(outcome) ==
  /\ crpc = "suggestions"
  /\ LET suggestionsResult == makeXaiRequestCrafter(outcome)
     IN /\ crafterFailed' =
             crafterFailed
               \cup Failure(Truthy(suggestionsResult.error), "suggestions")
        /\ crafterReport' =
             IF /\ Truthy(suggestionsResult.content)
                /\ ~includes(toLowerCase(suggestionsResult.content), "error")
             THEN [crafterReport EXCEPT
                     !.cast_suggestions = suggestionsResult.content]
             ELSE [crafterReport EXCEPT
                     !.errors =
                        Append(@, "Failed to generate cast suggestions: "
                                    \o Or(suggestionsResult.error,
                                          "LLM synthesis issue.")),
                     !.cast_suggestions =
                        "Could not generate cast suggestions due to an error. "
                          \o Or(suggestionsResult.error, "")]
  /\ crpc' = "returned"
  /\ UNCHANGED <<crafterArgs, fcData, crafterCalls, notCrafterVars>>

CrafterUser == \E o \in CrafterUserOutcomes : CrafterUserAnswer(o)
CrafterCasts == \E o \in CrafterCastsOutcomes : CrafterCastsAnswer(o)
CrafterXActivity == \E o \in CrafterXaiOutcomes : CrafterXActivityAnswer(o)
CrafterInterests == \E o \in CrafterXaiOutcomes : CrafterInterestsAnswer(o)
CrafterXEvents == \E o \in CrafterXaiOutcomes : CrafterXEventsAnswer(o)
CrafterSuggestions ==
  \E o \in CrafterXaiOutcomes : CrafterSuggestionsAnswer(o)

\* part_001:234-247, 180: run was called and awaits the /user/bulk answer
InitCrafter ==
  /\ crpc = "user"
  /\ crafterArgs \in [farcasterFid : Fids, xHandle : XHandles]
  /\ fcData = [pending |-> TRUE]
  /\ crafterReport = NewCrafterReport(crafterArgs)
  /\ crafterCalls = <<"user">>
  /\ crafterFailed = {}
  /\ IdleCasts
  /\ IdleFollowers
  /\ IdleTime
  /\ IdleAnalysis
  /\ IdlePulse
  /\ IdleStartup
  /\ IdlePersona
  /\ IdleSearch
  /\ IdleDigest
  /\ IdleSegments

NextCrafter ==
  \/ CrafterUser \/ CrafterCasts \/ CrafterXActivity
  \/ CrafterInterests \/ CrafterXEvents \/ CrafterSuggestions

SpecCrafter == InitCrafter /\ [][NextCrafter]_vars

(***************************************************************************)
(* The Farcaster Strategic Digest agent (part_001:387-629)                 *)
(***************************************************************************)
\* null
Null == [null |-> TRUE]

\* NeynarUser (part_001:370-379); bio: profile.bio.text
DigestUser ==
  [fid |-> 7, username |-> "alice", display_name |-> "Alice",
   follower_count |-> 1200, bio |-> "Onchain art"]
DigestFollower(n) == [object |-> "follow", user |-> [fid |-> n]]
DigestFollowerLists == {<<>>, <<DigestFollower(11), DigestFollower(12)>>}
HydratedUser(n) ==
  [fid |-> n, username |-> "user" \o ToString(n),
   display_name |-> "User " \o ToString(n), power_badge |-> (n % 2 = 1)]

\* what axios.get can do: a body that holds the expected list, a body that
\* lacks it, a rejection
DigestNeynarOutcomes(lists) ==
  {[kind |-> "throws", listPresent |-> FALSE, list |-> <<>>],
   [kind |-> "data", listPresent |-> FALSE, list |-> <<>>]}
  \cup {[kind |-> "data", listPresent |-> TRUE, list |-> l] : l \in lists}

\* part_001:387-405; list: data.users, data.casts
makeNeynarRequestDigest(pathname, outcome) ==
  IF outcome.kind = "data"
  THEN [listPresent |-> outcome.listPresent, list |-> outcome.list,
        error |-> Undefined]
  ELSE [listPresent |-> FALSE, list |-> <<>>,
        error |-> "Neynar API error for " \o pathname \o ": Network Error"]

\* part_001:406
fetchFarcasterUser(outcome) ==
  LET result == makeNeynarRequestDigest("/v2/farcaster/user/bulk", outcome)
  IN IF Truthy(result.error) THEN [user |-> Null, error |-> result.error]
     ELSE IF result.listPresent /\ Len(result.list) > 0
          THEN [user |-> result.list[1], error |-> Undefined]
          ELSE [user |-> Null, error |-> "User not found."]

\* part_001:407-408: the helper's own result is returned, an object with the
\* fields data and error; run reads its field casts, which is never set
fetchUserCasts(outcome) ==
  LET result == makeNeynarRequestDigest("/v2/farcaster/feed/user/casts", outcome)
  IN [castsDefined |-> FALSE, casts |-> <<>>, error |-> result.error]

\* part_001:409
fetchRecentFollowers(outcome) ==
  LET result == makeNeynarRequestDigest("/v2/farcaster/followers", outcome)
  IN [followersDefined |-> result.listPresent, followers |-> result.list,
      error |-> result.error]

\* part_001:410, for a list of FIDs that fits one chunk
fetchBulkUsersByFid(outcome) ==
  LET result == makeNeynarRequestDigest("/v2/farcaster/user/bulk", outcome)
  IN [users |-> IF result.listPresent THEN result.list ELSE <<>>,
      error |-> IF Truthy(result.error)
                THEN "Chunk starting 0: " \o result.error
                ELSE Undefined]

DigestContents ==
  {"onchain art, frames", "  ", "error handling in Rust"}
DigestCitations == <<"https://x.com/farcaster_xyz/status/1">>
DigestXaiOutcomes ==
  {[kind |-> "choices", content |-> c, message |-> ""] : c \in DigestContents}
  \cup {[kind |-> "nochoices", content |-> "", message |-> ""]}
  \cup {[kind |-> "throws", content |-> "", message |-> "Network Error"]}

\* part_001:426-439
getInterestsFromProfileAndCasts(outcome) ==
  IF outcome.kind = "choices" THEN trim(outcome.content)
  ELSE IF outcome.kind = "nochoices"
       THEN "Could not determine specific interests for news search."
       ELSE "Error determining interests for news search."

\* part_001:443: searchRecentEventsOnX makes no request
NoEventSearch(interests) ==
  \/ ~Truthy(interests)
  \/ includes(toLowerCase(interests), "could not determine")
  \/ includes(toLowerCase(interests), "error determining")

\* part_001:444
NoEventSearchResult ==
  [x_events_summary |->
     "Not enough Farcaster interest data to search for relevant X events.",
   error |-> Undefined, citations |-> Undefined]

\* part_001:453-470
searchRecentEventsOnX(outcome) ==
  IF outcome.kind = "choices"
  THEN [x_events_summary |-> outcome.content, error |-> Undefined,
        citations |-> DigestCitations]
  ELSE IF outcome.kind = "nochoices"
       THEN [x_events_summary |-> Undefined,
             error |-> "Could not find specific events on X or xAI response invalid.",
             citations |-> Undefined]
       ELSE [x_events_summary |-> Undefined,
             error |-> "Error searching X events: " \o outcome.message,
             citations |-> Undefined]

\* part_001:509-526
synthesizeStrategicDigestWithLLM(outcome) ==
  IF outcome.kind = "choices" THEN outcome.content
  ELSE IF outcome.kind = "nochoices"
       THEN "Strategic LLM synthesis returned an unexpected structure."
       ELSE "Error synthesizing strategic digest: " \o outcome.message \o "."

DigestTimestamp == "2025-06-03T07:00:00.000Z"
\* part_001:539-543, with every later field undefined
NewDigestReport(f) ==
  [target_fid |-> f, fetch_timestamp |-> DigestTimestamp, errors |-> <<>>,
   stats |-> Null, top_cast |-> Null,
   recent_followers_sample_count |-> 0,
   new_power_followers_sample |-> <<>>,
   high_impact_notifications_sample |-> <<>>,
   derived_interests |-> Undefined,
   x_events_summary_for_synthesis |-> Undefined,
   x_event_citations |-> Undefined,
   synthesized_summary |-> Undefined]

DigestFailure(outcome, call) ==
  IF outcome.kind = "throws" \/ outcome.kind = "nochoices" THEN {call} ELSE {}

\* part_001:546-551
DigestUserStatsAnswer(outcome) ==
  /\ dgpc = "userStats"
  /\ LET userStatsData == fetchFarcasterUser(outcome)
     IN digestReport' =
          [digestReport EXCEPT
             !.errors = PushIf(Truthy(userStatsData.error), @,
                               "UserStats: " \o userStatsData.error),
             !.stats = userStatsData.user]
  /\ digestFailed' = digestFailed \cup DigestFailure(outcome, "userStats")
  /\ dgpc' = "topCasts"
  /\ digestCalls' = Append(digestCalls, "topCasts")
  /\ UNCHANGED <<digestFid, recentFollowerFids, finalOutput, notDigestVars>>

\* part_001:551-562; the casts field is never defined, so top_cast is null
DigestTopCastsAnswer(outcome) ==
  /\ dgpc = "topCasts"
  /\ LET recentCastsDataForTopContent == fetchUserCasts(outcome)
     IN digestReport' =
          [digestReport EXCEPT
             !.errors = PushIf(Truthy(recentCastsDataForTopContent.error), @,
                               "RecentCastsTop: "
                                 \o recentCastsDataForTopContent.error),
             !.top_cast =
                IF /\ recentCastsDataForTopContent.castsDefined
                   /\ Len(recentCastsDataForTopContent.casts) > 0
                THEN recentCastsDataForTopContent.casts[1]
                ELSE Null]
  /\ digestFailed' = digestFailed \cup DigestFailure(outcome, "topCasts")
  /\ dgpc' = "followers"
  /\ digestCalls' = Append(digestCalls, "followers")
  /\ UNCHANGED <<digestFid, recentFollowerFids, finalOutput, notDigestVars>>

FollowerFidOf(f) == f.user.fid

\* part_001:562-568 or 562-586
DigestFollowersAnswer(outcome) ==
  /\ dgpc = "followers"
  /\ LET recentFollowersData == fetchRecentFollowers(outcome)
         withError ==
           [digestReport EXCEPT
              !.errors = PushIf(Truthy(recentFollowersData.error), @,
                                "RecentFollowers: "
                                  \o recentFollowersData.error)]
         fids == MapSeq(FollowerFidOf, recentFollowersData.followers)
     IN IF /\ recentFollowersData.followersDefined
           /\ Len(recentFollowersData.followers) > 0
        THEN IF Len(fids) > 0
             THEN /\ digestReport' =
                       [withError EXCEPT
                          !.recent_followers_sample_count =
                             Len(recentFollowersData.followers)]
                  /\ recentFollowerFids' = fids
                  /\ dgpc' = "bulkUsers"
                  /\ digestCalls' = Append(digestCalls, "bulkUsers")
             ELSE /\ digestReport' =
                       [withError EXCEPT
                          !.recent_followers_sample_count =
                             Len(recentFollowersData.followers),
                          !.new_power_followers_sample = <<>>]
                  /\ recentFollowerFids' = fids
                  /\ dgpc' = "interestCasts"
                  /\ digestCalls' = Append(digestCalls, "interestCasts")
        ELSE /\ digestReport' =
                  [withError EXCEPT
                     !.recent_followers_sample_count = 0,
                     !.new_power_followers_sample = <<>>]
             /\ UNCHANGED recentFollowerFids
             /\ dgpc' = "interestCasts"
             /\ digestCalls' = Append(digestCalls, "interestCasts")
  /\ digestFailed' = digestFailed \cup DigestFailure(outcome, "followers")
  /\ UNCHANGED <<digestFid, finalOutput, notDigestVars>>

PowerSample(u) ==
  [fid |-> u.fid, username |-> u.username, display_name |-> u.display_name]
HasBadge(u) == u.power_badge

\* part_001:568-586
DigestBulkUsersAnswer(outcome) ==
  /\ dgpc = "bulkUsers"
  /\ LET hydratedFollowersData == fetchBulkUsersByFid(outcome)
     IN digestReport' =
          [digestReport EXCEPT
             !.errors = PushIf(Truthy(hydratedFollowersData.error), @,
                               "HydrateFollowers: "
                                 \o hydratedFollowersData.error),
             !.new_power_followers_sample =
                MapSeq(PowerSample,
                       SelectSeq(hydratedFollowersData.users, HasBadge))]
  /\ digestFailed' = digestFailed \cup DigestFailure(outcome, "bulkUsers")
  /\ dgpc' = "interestCasts"
  /\ digestCalls' = Append(digestCalls, "interestCasts")
  /\ UNCHANGED <<digestFid, recentFollowerFids, finalOutput, notDigestVars>>

\* part_001:586-589, up to the request of getInterestsFromProfileAndCasts
DigestInterestCastsAnswer(outcome) ==
  /\ dgpc = "interestCasts"
  /\ LET castsForInterest == fetchUserCasts(outcome)
     IN digestReport' =
          [digestReport EXCEPT
             !.errors = PushIf(Truthy(castsForInterest.error), @,
                               "CastsForInterest: " \o castsForInterest.error)]
  /\ digestFailed' = digestFailed \cup DigestFailure(outcome, "interestCasts")
  /\ dgpc' = "interests"
  /\ digestCalls' = Append(digestCalls, "interests")
  /\ UNCHANGED <<digestFid, recentFollowerFids, finalOutput, notDigestVars>>

\* part_001:595-597
WithXEvents(rep, xEventsResult) ==
  [rep EXCEPT
     !.errors = PushIf(Truthy(xEventsResult.error), @,
                       "XEventsSearch: " \o xEventsResult.error),
     !.x_events_summary_for_synthesis = xEventsResult.x_events_summary,
     !.x_event_citations = xEventsResult.citations]

\* part_001:589-594, then searchRecentEventsOnX up to its request, or, when
\* it makes none, lines 594-600
DigestInterestsAnswer(outcome) ==
  /\ dgpc = "interests"
  /\ LET interests == getInterestsFromProfileAndCasts(outcome)
         rep == [digestReport EXCEPT
                   !.derived_interests = interests,
                   !.errors =
                      PushIf(\/ includes(toLowerCase(interests), "error")
                             \/ includes(toLowerCase(interests),
                                         "could not determine"),
                             @, "DeriveInterests: " \o interests)]
     IN IF NoEventSearch(interests)
        THEN /\ digestReport' = WithXEvents(rep, NoEventSearchResult)
             /\ dgpc' = "synthesis"
             /\ digestCalls' = Append(digestCalls, "synthesis")
        ELSE /\ digestReport' = rep
             /\ dgpc' = "xEvents"
             /\ digestCalls' = Append(digestCalls, "xEvents")
  /\ digestFailed' = digestFailed \cup DigestFailure(outcome, "interests")
  /\ UNCHANGED <<digestFid, recentFollowerFids, finalOutput, notDigestVars>>

\* part_001:453-470, 594-600
DigestXEventsAnswer(outcome) ==
  /\ dgpc = "xEvents"
  /\ digestReport' = WithXEvents(digestReport, searchRecentEventsOnX(outcome))
  /\ digestFailed' = digestFailed \cup DigestFailure(outcome, "xEvents")
  /\ dgpc' = "synthesis"
  /\ digestCalls' = Append(digestCalls, "synthesis")
  /\ UNCHANGED <<digestFid, recentFollowerFids, finalOutput, notDigestVars>>

\* a field of report.stats, undefined when stats is null
StatsField(rep, name) == IF rep.stats = Null THEN Undefined ELSE rep.stats[name]

\* a final output that keeps its errors field whatever the list holds
FinalOutputKeepsErrors(rep) ==
  [target_fid |-> rep.target_fid,
   synthesized_summary |-> rep.synthesized_summary,
   errors |-> rep.errors]

\* part_001:609-625; the errors field is deleted when the list is empty
FinalOutput(rep) ==
  LET output ==
        [target_fid |-> rep.target_fid,
         username |-> StatsField(rep, "username"),
         display_name |-> StatsField(rep, "display_name"),
         synthesized_summary |-> rep.synthesized_summary,
         details |->
           [follower_count |->
              IF rep.stats = Null THEN [undefined |-> TRUE]
              ELSE [value |-> rep.stats.follower_count],
            top_cast_snippet |->
              (IF rep.top_cast = Null THEN Undefined
               ELSE substring0(rep.top_cast.text, 75)) \o "...",
            top_cast_likes |-> Undefined,
            new_power_followers_count_in_sample |->
              Len(rep.new_power_followers_sample),
            derived_farcaster_interests |-> rep.derived_interests,
            recent_x_events_found |-> rep.x_events_summary_for_synthesis,
            x_event_citations |-> rep.x_event_citations]]
  IN IF Len(rep.errors) > 0 THEN output @@ [errors |-> rep.errors]
     ELSE output

\* part_001:600-628
DigestSynthesisAnswer(outcome) ==
  /\ dgpc = "synthesis"
  /\ LET summary == synthesizeStrategicDigestWithLLM(outcome)
         rep == [digestReport EXCEPT
                   !.synthesized_summary = summary,
                   !.errors = PushIf(includes(toLowerCase(summary), "error"),
                                     @, "Synthesis: " \o summary)]
     IN /\ digestReport' = rep
        /\ finalOutput' = FinalOutput(rep)
  /\ digestFailed' = digestFailed \cup DigestFailure(outcome, "synthesis")
  /\ dgpc' = "returned"
  /\ UNCHANGED <<digestFid, recentFollowerFids, digestCalls, notDigestVars>>

DigestUserStats ==
  \E o \in DigestNeynarOutcomes({<<>>, <<DigestUser>>}) :
    DigestUserStatsAnswer(o)
DigestTopCasts ==
  \E o \in DigestNeynarOutcomes({<<>>}) : DigestTopCastsAnswer(o)
DigestFollowers ==
  \E o \in DigestNeynarOutcomes(DigestFollowerLists) : DigestFollowersAnswer(o)
DigestBulkUsers ==
  \E o \in DigestNeynarOutcomes({MapSeq(HydratedUser, recentFollowerFids)}) :
    DigestBulkUsersAnswer(o)
DigestInterestCasts ==
  \E o \in DigestNeynarOutcomes({<<>>}) : DigestInterestCastsAnswer(o)
DigestInterests == \E o \in DigestXaiOutcomes : DigestInterestsAnswer(o)
DigestXEvents == \E o \in DigestXaiOutcomes : DigestXEventsAnswer(o)
DigestSynthesis == \E o \in DigestXaiOutcomes : DigestSynthesisAnswer(o)

\* part_001:535-546: run was called and awaits the /user/bulk answer
InitDigest ==
  /\ dgpc = "userStats"
  /\ digestFid \in Fids
  /\ digestReport = NewDigestReport(digestFid)
  /\ recentFollowerFids = <<>>
  /\ finalOutput = [notReturned |-> TRUE]
  /\ digestCalls = <<"userStats">>
  /\ digestFailed = {}
  /\ IdleCasts
  /\ IdleFollowers
  /\ IdleTime
  /\ IdleAnalysis
  /\ IdlePulse
  /\ IdleStartup
  /\ IdlePersona
  /\ IdleSearch
  /\ IdleCrafter
  /\ IdleSegments

NextDigest ==
  \/ DigestUserStats \/ DigestTopCasts \/ DigestFollowers \/ DigestBulkUsers
  \/ DigestInterestCasts \/ DigestInterests \/ DigestXEvents
  \/ DigestSynthesis

SpecDigest == InitDigest /\ [][NextDigest]_vars

(***************************************************************************)
(* Every capability: one request to one of the agents                      *)
(***************************************************************************)
\* JSON.stringify of a report object; a value that did not go through it is
\* a bare string
JSONstringify(obj) == [json |-> TRUE, object |-> obj]
BareString(str) == [json |-> FALSE, text |-> str]

\* the value each capability's run returns
analyzeOptimalPostingTimeReturn == JSONstringify(report)
getTrueAudienceProfileReturn == JSONstringify(followerReport)
analyzeFarcasterPulseReturn == JSONstringify(pulseReport)
analyzeUserPersonaReturn == JSONstringify(personaReport)
suggestFarcasterCastsReturn == JSONstringify(crafterReport)
getFarcasterStrategicDigestReturn == JSONstringify(finalOutput)
searchReturn == BareString(searchResult)

InitAgents ==
  \/ Init \/ InitFollowers \/ InitPulse \/ InitPersona
  \/ InitSearch \/ InitCrafter \/ InitDigest

\* one request is served at a time: only the capability that was called steps
NextAgents ==
  \/ pc # "idle" /\ Next
  \/ fpc # "idle" /\ NextFollowers
  \/ ppc # "idle" /\ NextPulse
  \/ perpc # "idle" /\ NextPersona
  \/ srpc # "idle" /\ NextSearch
  \/ crpc # "idle" /\ NextCrafter
  \/ dgpc # "idle" /\ NextDigest

SpecAgents == InitAgents /\ [][NextAgents]_vars

(***************************************************************************)
(* Properties of the returned reports (specification SpecAgents)           *)
(***************************************************************************)
FollowerReturned == fpc = "returned"
PulseReturned == ppc = "returned"
PersonaReturned == perpc = "returned"
SearchReturned == srpc = "returned"
CrafterReturned == crpc = "returned"
DigestReturned == dgpc = "returned"

FollowerFetchFailed == fetchError # Undefined \/ bulkFetchError # Undefined
PersonaFetchFailed ==
  \/ xDataResult.error # Undefined
  \/ fcProfileResult.error # Undefined
  \/ fcCastsResult.error # Undefined
IsList(r, name) == HasField(r, name) /\ DOMAIN r[name] = 1..Len(r[name])
EmptyWhenClean(r, clean) ==
  IsList(r, "errors") /\ (clean => r.errors = <<>>)

\* the statement "every report contains an errors list, present and empty
\* when no external call failed", capability by capability
C19_ErrorsListEmptyWhenClean ==
  /\ Returned =>
       EmptyWhenClean(analyzeOptimalPostingTimeReturn.object, NoRequestFailed)
  /\ FollowerReturned =>
       EmptyWhenClean(getTrueAudienceProfileReturn.object, ~FollowerFetchFailed)
  /\ PulseReturned =>
       EmptyWhenClean(analyzeFarcasterPulseReturn.object, failed = {})
  /\ PersonaReturned =>
       EmptyWhenClean(analyzeUserPersonaReturn.object, ~PersonaFetchFailed)
  /\ CrafterReturned =>
       EmptyWhenClean(suggestFarcasterCastsReturn.object, crafterFailed = {})
  /\ DigestReturned =>
       EmptyWhenClean(getFarcasterStrategicDigestReturn.object,
                      digestFailed = {})

NeynarCallsOfPulse == {"trendingFeed", "fetchCastReplies"}
StringField(r, name) == HasField(r, name) /\ r[name] \in STRING

\* C19: the reports of analyzeFarcasterPulseWithXContext and
\* suggestFarcasterCasts always contain an errors list; the pulse list is
\* non-empty exactly when the trending feed gave no catalyst cast or the
\* reply fetch failed, and the cast crafter's list is non-empty whenever one
\* of its requests failed.  The report of getFarcasterStrategicDigest
\* contains errors only as a non-empty list, and contains it whenever a
\* request other than the final synthesis failed.  The reports of
\* analyzeOptimalPostingTime, getTrueAudienceProfile and analyzeUserPersona
\* never contain an errors list: a failed request shows as the string field
\* error (posting time, audience profile) or as x_error,
\* farcaster_profile_error, farcaster_casts_error and synthesis_error
\* (persona).
C19_ErrorsListWhereKept ==
  /\ PulseReturned =>
       /\ IsList(pulseReport, "errors")
       /\ pulseReport.errors # <<>> <=>
            (~CatalystObtained \/ "fetchCastReplies" \in failed)
  /\ CrafterReturned =>
       /\ IsList(crafterReport, "errors")
       /\ crafterFailed # {} => crafterReport.errors # <<>>
  /\ DigestReturned =>
       /\ HasField(finalOutput, "errors") =>
            IsList(finalOutput, "errors") /\ finalOutput.errors # <<>>
       /\ digestFailed \ {"synthesis"} # {} => HasField(finalOutput, "errors")
  /\ Returned =>
       /\ ~HasField(report, "errors")
       /\ ~NoRequestFailed <=> HasField(report, "error")
       /\ HasField(report, "error") => report.error \in STRING
  /\ FollowerReturned =>
       /\ ~HasField(followerReport, "errors")
       /\ FollowerFetchFailed => StringField(followerReport, "error")
  /\ PersonaReturned =>
       /\ ~HasField(personaReport, "errors")
       /\ personaReport.x_error = xDataResult.error
       /\ personaReport.farcaster_profile_error = fcProfileResult.error
       /\ personaReport.farcaster_casts_error = fcCastsResult.error
       /\ StringField(personaReport, "synthesis_error")

\* the digest returned after requests that all succeeded, and its report has
\* no errors field
C19_Witness ==
  /\ DigestReturned
  /\ digestFailed = {}
  /\ Len(digestCalls) = 8
  /\ ~HasField(finalOutput, "errors")
  /\ finalOutput.synthesized_summary = "onchain art, frames"

\* the statement "every return path returns a JSON report that echoes the
\* input identifiers", capability by capability
Echoes(value, name, input) ==
  /\ value.json
  /\ HasField(value.object, name)
  /\ value.object[name] = input
C20_EveryReturnEchoesInputs ==
  /\ Returned => Echoes(analyzeOptimalPostingTimeReturn, "target_fid", fid)
  /\ FollowerReturned =>
       Echoes(getTrueAudienceProfileReturn, "target_fid", targetFid)
  /\ PulseReturned =>
       Echoes(analyzeFarcasterPulseReturn, "requesting_fid", viewerFid)
  /\ PersonaReturned =>
       /\ Echoes(analyzeUserPersonaReturn, "farcaster_fid", farcasterFid)
       /\ Echoes(analyzeUserPersonaReturn, "x_handle", xHandle)
  /\ CrafterReturned =>
       /\ Echoes(suggestFarcasterCastsReturn, "farcasterFid",
                 crafterArgs.farcasterFid)
       /\ Echoes(suggestFarcasterCastsReturn, "xHandle", crafterArgs.xHandle)
  /\ DigestReturned =>
       Echoes(getFarcasterStrategicDigestReturn, "target_fid", digestFid)
  /\ SearchReturned => searchReturn.json

\* C20: on every return path (success, early return, error return) the six
\* report capabilities return a JSON-encoded report that echoes the request's
\* FID, and the X handle where one is given; searchXPlatform, searchRssFeed
\* and searchWeb return the bare string of commonXaiRequest, the model's
\* text or a message that starts with "Error", not a JSON report.
C20_ReportsEchoInputsSearchReturnsText ==
  /\ Returned => Echoes(analyzeOptimalPostingTimeReturn, "target_fid", fid)
  /\ FollowerReturned =>
       Echoes(getTrueAudienceProfileReturn, "target_fid", targetFid)
  /\ PulseReturned =>
       Echoes(analyzeFarcasterPulseReturn, "requesting_fid", viewerFid)
  /\ PersonaReturned =>
       /\ Echoes(analyzeUserPersonaReturn, "farcaster_fid", farcasterFid)
       /\ Echoes(analyzeUserPersonaReturn, "x_handle", xHandle)
  /\ CrafterReturned =>
       /\ Echoes(suggestFarcasterCastsReturn, "farcasterFid",
                 crafterArgs.farcasterFid)
       /\ Echoes(suggestFarcasterCastsReturn, "xHandle", crafterArgs.xHandle)
  /\ DigestReturned =>
       Echoes(getFarcasterStrategicDigestReturn, "target_fid", digestFid)
  /\ SearchReturned =>
       /\ ~searchReturn.json
       /\ searchReturn.text \in STRING
       /\ \/ StartsWith(searchReturn.text, "Error")
          \/ \E o \in SearchOutcomes :
               o.kind = "choices" /\ searchReturn.text = o.text

\* the audience profile returned early, no follower collected after a failed
\* page, and a search returned an error text
C20_Witness ==
  \/ /\ FollowerReturned
     /\ collected = <<>>
     /\ fetchError # Undefined
     /\ followerReport.target_fid = targetFid
     /\ followerReport.analysis_summary =
          "Analysis cannot proceed without follower data."
  \/ /\ SearchReturned
     /\ searchType = "rss"
     /\ StartsWith(searchResult, "Error: x.ai API rate limit exceeded.")

(***************************************************************************)
(* Properties of analyzeUserPersona (specification SpecPersona)            *)
(***************************************************************************)
CallsNamed(log, name) == Cardinality({i \in 1..Len(log) : log[i] = name})
\* the requests issued and not yet answered
PersonaInFlight ==
  Cardinality(pendingFetches) + (IF perpc = "synthesis" THEN 1 ELSE 0)
FetchFailed(which) ==
  \/ which = "fetchXUserData" /\ xDataResult.error # Undefined
  \/ which = "fetchFarcasterUserProfile" /\ fcProfileResult.error # Undefined
  \/ which = "fetchFarcasterUserCasts" /\ fcCastsResult.error # Undefined

\* C21: in analyzeUserPersona the three fetches are all issued before any of
\* them has settled, at most 3 requests are in flight, and the synthesis
\* request is issued exactly once, only after all three fetches have settled:
\* in every settling order and whichever of them failed, a failed fetch
\* neither ends the wait nor removes another fetch.
C21_FetchesTogetherSynthesisOnceAfterAll ==
  perpc # "idle" =>
    /\ SubSeq(personaCalls, 1, 3) = PersonaFetches
    /\ PersonaInFlight <= 3
    /\ {settledFetches[i] : i \in 1..Len(settledFetches)} \cup pendingFetches
         = {PersonaFetches[i] : i \in 1..3}
    /\ Len(settledFetches) + Cardinality(pendingFetches) = 3
    /\ CallsNamed(personaCalls, "synthesizePersona") <= 1
    /\ CallsNamed(personaCalls, "synthesizePersona") = 1 <=>
         pendingFetches = {}
    /\ perpc = "fetch" <=> pendingFetches # {}
    /\ perpc = "returned" =>
         personaCalls = Append(PersonaFetches, "synthesizePersona")

\* the casts fetch failed first, then the profile fetch failed, the X
\* analysis came last, and the synthesis was then issued once
C21_Witness ==
  /\ perpc = "returned"
  /\ settledFetches = <<"fetchFarcasterUserCasts", "fetchFarcasterUserProfile",
                        "fetchXUserData">>
  /\ FetchFailed("fetchFarcasterUserCasts")
  /\ FetchFailed("fetchFarcasterUserProfile")
  /\ ~FetchFailed("fetchXUserData")
  /\ CallsNamed(personaCalls, "synthesizePersona") = 1

\* C29: every report returned by analyzeUserPersona has exactly one of
\* synthesized_persona and synthesis_error non-empty, whether the synthesis
\* request succeeded, failed, or returned empty content.
C29_PersonaOrErrorExactlyOne ==
  perpc = "returned" =>
    /\ personaReport.synthesized_persona \in STRING
    /\ personaReport.synthesis_error \in STRING
    /\ personaReport.synthesized_persona # ""
         \/ personaReport.synthesis_error # ""
    /\ ~(personaReport.synthesized_persona # ""
         /\ personaReport.synthesis_error # "")
    /\ personaReport.synthesized_persona # Undefined
    /\ personaReport.synthesis_error # Undefined

\* the synthesis request answered with an empty content
C29_Witness ==
  /\ perpc = "returned"
  /\ personaReport.synthesized_persona = ""
  /\ personaReport.synthesis_error =
       "Synthesis step did not produce content or an error."


(***************************************************************************)
(* Properties of the follower analyst's run (specification SpecFollowers)  *)
(***************************************************************************)
RECURSIVE Flatten(_)
Flatten(seqs) ==
  IF Len(seqs) = 0 THEN <<>> ELSE Head(seqs) \o Flatten(Tail(seqs))

\* the k-th consecutive slice of a list, in slices of BULK_USER_FETCH_CHUNK_SIZE
SliceNo(list, k) ==
  [j \in 1..(Min(k * BULK_USER_FETCH_CHUNK_SIZE, Len(list))
               - (k - 1) * BULK_USER_FETCH_CHUNK_SIZE)
     |-> list[(k - 1) * BULK_USER_FETCH_CHUNK_SIZE + j]]

StatedLimit(count) ==
  IF MAX_FOLLOWERS_TO_PROCESS - count < FOLLOWER_FETCH_BATCH_SIZE
  THEN MAX_FOLLOWERS_TO_PROCESS - count
  ELSE FOLLOWER_FETCH_BATCH_SIZE

\* C23: every followers request asks for
\* min(FOLLOWER_FETCH_BATCH_SIZE, MAX_FOLLOWERS_TO_PROCESS - fetchedFollowersCount)
\* entries, a limit between 1 and FOLLOWER_FETCH_BATCH_SIZE; as long as no
\* page held more entries than the limit asked for, fetchedFollowersCount is
\* at most MAX_FOLLOWERS_TO_PROCESS and so are the collected and the
\* de-duplicated list.
C23_LimitBoundsTheCollection ==
  /\ fpc = "collect" =>
       /\ requestedLimit = StatedLimit(fetchedFollowersCount)
       /\ requestedLimit >= 1
       /\ requestedLimit <= FOLLOWER_FETCH_BATCH_SIZE
  /\ (fpc # "idle" /\ ~oversized) =>
       /\ fetchedFollowersCount <= MAX_FOLLOWERS_TO_PROCESS
       /\ Len(allFollowerFids) <= MAX_FOLLOWERS_TO_PROCESS
       /\ Len(collected) <= MAX_FOLLOWERS_TO_PROCESS

\* a full first page, then a request for the remainder only, answered in
\* full: the count stops at MAX_FOLLOWERS_TO_PROCESS although a cursor came
C23_Witness ==
  /\ fpc \in {"deduped", "returned"}
  /\ ~oversized
  /\ followerRequests = 2
  /\ requestedLimit = MAX_FOLLOWERS_TO_PROCESS - FOLLOWER_FETCH_BATCH_SIZE
  /\ requestedLimit < FOLLOWER_FETCH_BATCH_SIZE
  /\ fetchedFollowersCount = MAX_FOLLOWERS_TO_PROCESS
  /\ Truthy(cursor)


\* the report built at index.ts:261-275, as opposed to the early returns
AnalysisReport == HasField(followerReport, "data_fetching_notes")
PageFetchFailed == fetchError # Undefined
ChunkFailed == bulkFetchError # Undefined

\* C25 as stated: after FIDs were collected, the report run returns has the
\* top-level error field if and only if a page fetch or a chunk failed.
C25_ErrorFieldIffAFetchFailed ==
  (fpc = "returned" /\ Len(allFollowerFids) > 0) =>
    (HasField(followerReport, "error") <=> (PageFetchFailed \/ ChunkFailed))

\* C25: a failed follower page after FIDs were collected does not end run:
\* the first chunk of the FIDs collected so far is requested; whichever
\* chunks fail, every chunk is requested before run returns; the report
\* built from the segment analysis counts the profiles that came back and
\* has the top-level error field if and only if a page fetch or a chunk
\* failed; the report returned when no profile came back and no chunk
\* failed has the error field in every case.
C25_FailuresDegradeErrorFieldOfAnalysisReport ==
  /\ (Deduped /\ PageFetchFailed /\ Len(allFollowerFids) > 0) =>
       /\ Len(bulkRequests) >= 1
       /\ bulkRequests[1] = SliceNo(allFollowerFids, 1)
  /\ (fpc = "returned" /\ Len(allFollowerFids) > 0) =>
       /\ Flatten(bulkRequests) = allFollowerFids
       /\ Len(bulkAnswers) = Len(bulkRequests)
       /\ AnalysisReport <=> (Len(Flatten(bulkAnswers)) > 0 \/ ChunkFailed)
       /\ AnalysisReport =>
            /\ followerReport.segments.total_followers_analyzed
                 = Len(Flatten(bulkAnswers))
            /\ HasField(followerReport, "error")
                 <=> (PageFetchFailed \/ ChunkFailed)
       /\ ~AnalysisReport => HasField(followerReport, "error")

\* a page failed after a FID was collected, the first chunk failed, the
\* second came back with its profile, and the analysis of that profile was
\* returned with the error field
C25_Witness ==
  /\ fpc = "returned"
  /\ PageFetchFailed
  /\ Len(bulkRequests) >= 2
  /\ StartsWith(bulkFetchError, "Chunk 1 error: ")
  /\ Len(bulkAnswers[1]) = 0
  /\ Len(bulkAnswers[2]) > 0
  /\ AnalysisReport
  /\ followerReport.segments.total_followers_analyzed > 0
  /\ HasField(followerReport, "error")


(***************************************************************************)
(* analyzeFollowerSegments on its own (index.ts:100-166)                   *)
(***************************************************************************)
\* follower counts on both sides of the 100 of index.ts:124; 0 is also what
\* a profile without follower_count counts as (follower_count || 0)
SegmentCounts == {0, MIN_HIGH_FOLLOWER_COUNT, MIN_HIGH_FOLLOWER_COUNT + 1, 300}

\* the profiles of the FIDs 1..n in order, each with any count and badge
ProfileLists(n) ==
  [1..n -> SegmentCounts \X BOOLEAN]

ProfilesOf(choice) ==
  [i \in 1..Len(choice) |->
     [fid |-> i, power_badge |-> choice[i][2], follower_count |-> choice[i][1]]]

InitSegments ==
  /\ segpc = "start"
  /\ \E n \in 0..MaxProfiles : \E choice \in ProfileLists(n) :
       segFollowers = ProfilesOf(choice)
  /\ segResult = [notReturned |-> TRUE]
  /\ IdleCasts
  /\ IdleFollowers
  /\ IdleTime
  /\ IdleAnalysis
  /\ IdlePulse
  /\ IdleStartup
  /\ IdlePersona
  /\ IdleSearch
  /\ IdleCrafter
  /\ IdleDigest

AnalyzeSegments ==
  /\ segpc = "start"
  /\ segResult' = analyzeFollowerSegments(segFollowers)
  /\ segpc' = "done"
  /\ UNCHANGED <<segFollowers, notSegmentsVars>>

NextSegments == AnalyzeSegments

SpecSegments == InitSegments /\ [][NextSegments]_vars

(***************************************************************************)
(* Properties of analyzeFollowerSegments (specification SpecSegments)      *)
(***************************************************************************)
SampleFids(sample) == {sample[i].fid : i \in 1..Len(sample)}
ProfileWithFid(f) ==
  segFollowers[CHOOSE i \in 1..Len(segFollowers) : segFollowers[i].fid = f]

\* the follower count at a rank of the counts taken largest first: v is at
\* rank r when at most r - 1 profiles have more and at least r have as much
CountAtRank(r) ==
  CHOOSE v \in SegmentCounts :
    /\ Cardinality({i \in 1..Len(segFollowers) :
                      segFollowers[i].follower_count > v}) <= r - 1
    /\ Cardinality({i \in 1..Len(segFollowers) :
                      segFollowers[i].follower_count >= v}) >= r

\* the threshold of the top share, for a list that is not empty
TopShareThreshold ==
  CountAtRank((Len(segFollowers) \div TOP_PERCENTILE_DIVISOR) + 1)

RepliesAnswered == Len(calls) >= 4
ReplyFetchFailed == "fetchCastReplies" \in failed
RepliesErrors ==
  {i \in 1..Len(pulseReport.errors) :
     StartsWith(pulseReport.errors[i], "CatalystReplies: ")}

\* C27: a reply fetch that failed, a catalyst without author username
\* included, counts as no reply: one CatalystReplies entry is appended to
\* report.errors, replies_sample is empty and the summary is asked of the X
\* search; the summary of the local replies is asked for only after a reply
\* fetch that succeeded with at least one reply.
C27_FailedRepliesAreNoReplies ==
  RepliesAnswered =>
    /\ ~Truthy(catalystCast.username) => ReplyFetchFailed
    /\ ReplyFetchFailed =>
         /\ Cardinality(RepliesErrors) = 1
         /\ Last(pulseReport.errors) \in
              {"CatalystReplies: Parent cast author username or hash is missing, cannot construct parent_url for replies.",
               "CatalystReplies: Neynar API error for /v2/farcaster/feed: Request failed with status code 500"}
         /\ pulseReport.replies_sample = <<>>
         /\ directReplies = <<>>
         /\ calls[4] = "xSearch"
         /\ CountOfCall("replySummary") = 0
    /\ ~ReplyFetchFailed => RepliesErrors = {}
    /\ CountOfCall("replySummary") > 0 =>
         /\ calls[4] = "replySummary"
         /\ ~ReplyFetchFailed
         /\ Len(directReplies) >= 1
         /\ Len(pulseReport.replies_sample) >= 1

\* the feed request for the replies was rejected, and run returned after the
\* X search in place of the reply summary
C27_Witness ==
  /\ ppc = "returned"
  /\ ReplyFetchFailed
  /\ Truthy(catalystCast.username)
  /\ pulseReport.errors =
       <<"CatalystReplies: Neynar API error for /v2/farcaster/feed: Request failed with status code 500">>
  /\ CountOfCall("xSearch") = 1
  /\ Len(pulseReport.steps) = 6


\* C28: when the trending feed failed or held no cast, run has returned with
\* one TrendingFeed entry in errors, the fallback final_summary and no step
\* flag, and the trending request is the only request it made; in every
\* returned report the step flags set are a prefix of trending_feed_fetched,
\* catalyst_identified, replies_fetched, discussion_summarized,
\* x_events_context_fetched, final_synthesis_complete.
C28_NoCatalystReturnsAtOnceStepsPrefixClosed ==
  /\ "trendingFeed" \in failed => ~CatalystObtained
  /\ (ppc # "idle" /\ ppc # "trending" /\ ~CatalystObtained) =>
       /\ ppc = "returned"
       /\ calls = <<"trendingFeed">>
       /\ Len(pulseReport.errors) = 1
       /\ StartsWith(pulseReport.errors[1], "TrendingFeed: ")
       /\ "trendingFeed" \notin failed =>
            pulseReport.errors[1] = "TrendingFeed: No trending casts found."
       /\ pulseReport.final_summary =
            "Could not identify a strong trending Farcaster conversation at this moment."
       /\ pulseReport.steps = <<>>
  /\ ppc = "returned" =>
       /\ IsPrefix(pulseReport.steps, StepsInOrder)
       /\ \A i \in 1..Len(StepsInOrder) :
            (\E j \in 1..Len(pulseReport.steps) :
                pulseReport.steps[j] = StepsInOrder[i])
              => \A k \in 1..i :
                   \E j \in 1..Len(pulseReport.steps) :
                      pulseReport.steps[j] = StepsInOrder[k]

\* the trending request was rejected and run returned the fallback
C28_Witness ==
  /\ ppc = "returned"
  /\ "trendingFeed" \in failed
  /\ calls = <<"trendingFeed">>
  /\ pulseReport.errors =
       <<"TrendingFeed: Neynar API error for /v2/farcaster/feed/trending: Request failed with status code 500">>
  /\ pulseReport.steps = <<>>


(***************************************************************************)
(* The X-events search of the cast crafter and of the strategic digest     *)
(* (specification SpecAgents)                                              *)
(***************************************************************************)
CrafterInterestsAnswered ==
  crpc # "idle" /\ CallsNamed(crafterCalls, "interests") = 1 /\ crpc # "interests"
DigestInterestsAnswered ==
  dgpc # "idle" /\ CallsNamed(digestCalls, "interests") = 1 /\ dgpc # "interests"

\* C26: in suggestFarcasterCasts and in getFarcasterStrategicDigest, once the
\* interest-derivation request was answered, the X-events search request is
\* made if and only if that request succeeded; when it is not made, the
\* report holds the fixed explanatory string in its place.
C26_SearchIssuedIffInterestsDerived ==
  /\ CrafterInterestsAnswered =>
       /\ CallsNamed(crafterCalls, "xEvents") = 1
            <=> "interests" \notin crafterFailed
       /\ CallsNamed(crafterCalls, "xEvents") = 0 =>
            crafterReport.intermediate_data.recent_x_events
              = "Cannot search for X events without derived interests."
  /\ DigestInterestsAnswered =>
       /\ CallsNamed(digestCalls, "xEvents") = 1
            <=> "interests" \notin digestFailed
       /\ CallsNamed(digestCalls, "xEvents") = 0 =>
            digestReport.x_events_summary_for_synthesis
              = "Not enough Farcaster interest data to search for relevant X events."


(***************************************************************************)
(* The two collection loops (specification SpecAgents)                     *)
(***************************************************************************)
\* a request of the loop is awaited after an earlier one was answered
CastRequestAfterAnswer == pc = "fetch" /\ requests >= 1
FollowerRequestAfterAnswer == fpc = "collect" /\ followerRequests >= 1

\* a page with a token and no message is answered and the loop goes on as
\* it was
CastLoopIdlePage ==
  /\ FetchPage(<<>>, TRUE, "tok")
  /\ pc' = "fetch" /\ allCasts' = allCasts /\ nextPageToken' = "tok"
FollowerLoopIdlePage ==
  /\ FollowersPage(<<>>, TRUE, "cur")
  /\ fpc' = "collect"
  /\ fetchedFollowersCount' = fetchedFollowersCount
  /\ allFollowerFids' = allFollowerFids

\* C24: in fetchAllUserCasts and in the follower loop a request follows an
\* answer only if that answer was a page with a continuation token (cursor)
\* and no request had failed, so the loop has ended at the first answer
\* without token or failed request and asks nothing after it; and as long as
\* the loop runs, a page with a token that adds nothing to the count leaves
\* it running with the same count, so no number of requests ends it.
C24_LoopsEndWithoutTokenNotOtherwise ==
  /\ CastRequestAfterAnswer => Truthy(respToken) /\ error = Undefined
  /\ (pc # "idle" /\ requests >= 1
        /\ (~Truthy(respToken) \/ error # Undefined)) => pc = "done"
  /\ FollowerRequestAfterAnswer => Truthy(cursor) /\ fetchError = Undefined
  /\ (fpc # "idle" /\ followerRequests >= 1
        /\ (~Truthy(cursor) \/ fetchError # Undefined)) => fpc # "collect"
  /\ (pc = "fetch" /\ requests < MaxRequests) => ENABLED CastLoopIdlePage
  /\ (fpc = "collect" /\ followerRequests < MaxFollowerRequests) =>
       ENABLED FollowerLoopIdlePage

\* fetchAllUserCasts made every request the model allows, each answered
\* with a token and nothing to collect, and still awaits a page
C24_Witness ==
  /\ pc = "fetch"
  /\ requests = MaxRequests
  /\ requests > RequestBound
  /\ Truthy(respToken)
  /\ allCasts = <<>>
  /\ error = Undefined

====
